---- MODULE Spec2Model ----
(***************************************************************************)
(* Model of the openpass member registry, token service and photo vault.   *)
(*                                                                         *)
(* Text is modelled as a sequence of one-character strings, so that        *)
(* strip(), lower() and the e-mail pattern are computed, not assumed.      *)
(* Python's None is written None for text-valued slots and NoYear (0) for  *)
(* the integer join year: datetime never yields year 0 (MINYEAR is 1) and  *)
(* the code only ever tests the year for truthiness.                       *)
(***************************************************************************)
EXTENDS Integers, Sequences, FiniteSets, TLC

VARIABLES
    tableExists,   \* the members table exists in the SQLite file
    members,       \* committed table content: pseudonym -> stored row
    origin,        \* history: pseudonym -> written by a batch commit from a row with errors
    lastReq,       \* the request handled last
    resp,          \* its response
    now,           \* wall clock, seconds
    issued,        \* the link the client holds: the token issued last, with its flow
    session,       \* the browser session: oauth_userinfo, email_userinfo, oauth_state, flask-login's user id
    photos,        \* photo folder: photo_id -> content of <photo_id>.enc
    uploaded,      \* history: photo_id -> the upload its file came from
    fileReads,     \* history: photo files opened by the last get_photo request
    pc,            \* per worker: position inside its handler
    job,           \* per worker: the request it serves, as its place in ConcJobs
    pend,          \* per worker: the uncommitted view of its SQLite connection
    advLock,       \* holder of the advisory lock on <db>.lock (or None)
    dbWriter,      \* holder of SQLite's own write lock (or None)
    app,           \* the process: its environment, its configuration, whether it runs
    heap           \* the members table row by row, as SQLite stores it

regVars == <<tableExists, members, origin>>
httpVars == <<lastReq, resp>>
tokVars == <<now, issued, session, photos, uploaded, fileReads>>
concVars == <<pc, job, pend, advLock, dbWriter>>
vars == <<tableExists, members, origin, lastReq, resp, now, issued, session,
          photos, uploaded, fileReads, pc, job, pend, advLock, dbWriter, app, heap>>

None == "None"
NoYear == 0

(***************************************************************************)
(* Text helpers                                                            *)
(***************************************************************************)
IsSpace(c) == c = " "

RECURSIVE LStrip(_)
LStrip(s) == IF s = <<>> THEN <<>>
             ELSE IF IsSpace(Head(s)) THEN LStrip(Tail(s)) ELSE s

RECURSIVE RStrip(_)
RStrip(s) == IF s = <<>> THEN <<>>
             ELSE IF IsSpace(s[Len(s)]) THEN RStrip(SubSeq(s, 1, Len(s) - 1)) ELSE s

\* str.strip()
Strip(s) == RStrip(LStrip(s))

LowerChar(c) == CASE c = "A" -> "a"
                  [] c = "B" -> "b"
                  [] c = "C" -> "c"
                  [] c = "N" -> "n"
                  [] OTHER -> c

\* str.lower()
Lower(s) == [i \in 1..Len(s) |-> LowerChar(s[i])]

\* positions of character c in s
Positions(s, c) == {i \in 1..Len(s) : s[i] = c}

\* EMAIL_RE = ^[^@\s]+@[^@\s]+\.[^@\s]+$
EMAIL_RE(s) ==
    /\ Cardinality(Positions(s, "@")) = 1
    /\ Positions(s, " ") = {}
    /\ LET at == CHOOSE i \in Positions(s, "@") : TRUE
       IN /\ at > 1
          /\ \E dot \in Positions(s, ".") : dot > at + 1 /\ dot < Len(s)

RECURSIVE Digits(_)
Digits(n) == IF n < 10 THEN <<CASE n = 0 -> "0" [] n = 1 -> "1" [] n = 2 -> "2"
                                [] n = 3 -> "3" [] n = 4 -> "4" [] n = 5 -> "5"
                                [] n = 6 -> "6" [] n = 7 -> "7" [] n = 8 -> "8"
                                [] OTHER -> "9">>
             ELSE Digits(n \div 10) \o Digits(n % 10)

\* str(join_year) for a non-negative year
Str(n) == Digits(n)

(***************************************************************************)
(* Hashing and Fernet                                                      *)
(***************************************************************************)
\* hashlib.sha256(x.encode()).digest(): collision-free on the model's inputs
Sha256(s) == [alg |-> "sha256", msg |-> s]

\* .hexdigest(): the 64 hex characters of the digest
HexDigest(s) == [hex |-> Sha256(s), len |-> 64]

\* .hexdigest()[:16]
PhotoId(email) == [hex |-> Sha256(Lower(Strip(email))), len |-> 16]

FERNET_KEY == "fernet-key"

\* fernet.encrypt(plain): authenticated ciphertext under the process key
\* (the random IV and the timestamp inside the ciphertext are left out)
FernetEncrypt(key, plain) == [k |-> key, pt |-> plain]

DecryptFailed == <<"InvalidToken">>

\* fernet.decrypt(token): the plaintext, or InvalidToken for a foreign key
FernetDecrypt(key, tok) == IF tok.k = key THEN tok.pt ELSE DecryptFailed

\* SQL NULL in a nullable column
NULL == [k |-> "NULL", pt |-> <<>>]

(***************************************************************************)
(* Input data                                                              *)
(***************************************************************************)
MaxBatch == 2     \* longest staged batch

eA == <<"a", "@", "b", ".", "d">>
eAvar == <<"A", "@", "b", ".", "d", " ">>
eB == <<"c", "@", "b", ".", "d">>
eBad == <<"n", "o">>

nAna == <<"A", "n">>
nBo == <<"B", "o">>
nCy == <<" ", "C", "y">>

rMit == <<"M">>
dDMY == <<"0", "3", ".", "0", "4", ".", "2", "0", "1", "9">>
dISO == <<"2", "0", "2", "0", "-", "1", "-", "5">>
dBad == <<"x">>

RawRow(f, l, e, j, r) == [firstname |-> f, lastname |-> l, email |-> e, joindate |-> j, role |-> r]

\* the rows a CSV line or a posted preview form can carry
RawRows ==
    { RawRow(nAna, nBo, eA, dDMY, rMit),
      RawRow(nCy, nAna, eAvar, <<>>, <<>>),
      RawRow(nBo, nCy, eB, dISO, <<>>),
      RawRow(nAna, nBo, eBad, dBad, rMit) }

RECURSIVE SeqsUpTo(_, _)
SeqsUpTo(S, n) == IF n = 0 THEN {<<>>}
                  ELSE SeqsUpTo(S, n - 1) \cup
                       {Append(q, x) : q \in {t \in SeqsUpTo(S, n - 1) : Len(t) = n - 1}, x \in S}

Batches == SeqsUpTo(RawRows, MaxBatch)

(***************************************************************************)
(* datetime.strptime                                                       *)
(***************************************************************************)
DigitChars == {"0", "1", "2", "3", "4", "5", "6", "7", "8", "9"}

DigitVal(c) == CASE c = "0" -> 0 [] c = "1" -> 1 [] c = "2" -> 2 [] c = "3" -> 3
                 [] c = "4" -> 4 [] c = "5" -> 5 [] c = "6" -> 6 [] c = "7" -> 7
                 [] c = "8" -> 8 [] OTHER -> 9

RECURSIVE NumVal(_)
NumVal(s) == IF s = <<>> THEN 0 ELSE 10 * NumVal(SubSeq(s, 1, Len(s) - 1)) + DigitVal(s[Len(s)])

AllDigits(s) == s # <<>> /\ \A i \in 1..Len(s) : s[i] \in DigitChars

\* split s at every occurrence of sep
RECURSIVE Split(_, _)
Split(s, sep) ==
    IF Positions(s, sep) = {} THEN <<s>>
    ELSE LET i == CHOOSE k \in Positions(s, sep) : \A m \in Positions(s, sep) : k <= m
         IN <<SubSeq(s, 1, i - 1)>> \o Split(SubSeq(s, i + 1, Len(s)), sep)

IsLeap(y) == (y % 4 = 0 /\ y % 100 # 0) \/ y % 400 = 0

DaysIn(m, y) == CASE m \in {4, 6, 9, 11} -> 30
                  [] m = 2 -> IF IsLeap(y) THEN 29 ELSE 28
                  [] OTHER -> 31

ValidDate(d, m, y) == y >= 1 /\ m \in 1..12 /\ d >= 1 /\ d <= DaysIn(m, y)

\* the year of strptime(s, fmt) with day/month/year fields at positions di, mi, yi
\* of the sep-separated text, or NoYear when strptime raises
StrptimeYear(s, sep, di, mi, yi) ==
    LET parts == Split(s, sep)
    IN IF /\ Len(parts) = 3
          /\ \A i \in 1..3 : AllDigits(parts[i])
          /\ Len(parts[di]) \in 1..2 /\ Len(parts[mi]) \in 1..2 /\ Len(parts[yi]) = 4
          /\ ValidDate(NumVal(parts[di]), NumVal(parts[mi]), NumVal(parts[yi]))
       THEN NumVal(parts[yi])
       ELSE NoYear

\* "%d.%m.%Y"
StrptimeDMY(s) == StrptimeYear(s, ".", 1, 2, 3)

\* "%Y-%m-%d"
StrptimeISO(s) == StrptimeYear(s, "-", 3, 2, 1)

(***************************************************************************)
(* validate_rows                                                           *)
(***************************************************************************)
Err(m, a) == [msg |-> m, arg |-> a]

ErrIf(cond, m, a) == IF cond THEN <<Err(m, a)>> ELSE <<>>

\* join_year of validate_rows: first the dotted format, then ISO
ParseJoinYear(joindate) ==
    IF joindate = <<>> THEN NoYear
    ELSE IF StrptimeDMY(joindate) # NoYear THEN StrptimeDMY(joindate)
    ELSE StrptimeISO(joindate)

\* a validator that reports the first violated rule only
ValidateRow_ShortCircuit(row, idx, seen_emails) ==
    LET firstname == Strip(row.firstname)
        lastname == Strip(row.lastname)
        email == Lower(Strip(row.email))
        joindate == Strip(row.joindate)
        role == Strip(row.role)
        join_year == ParseJoinYear(joindate)
        errors == IF firstname = <<>> THEN <<Err("Vorname fehlt", <<>>)>>
                  ELSE IF lastname = <<>> THEN <<Err("Nachname fehlt", <<>>)>>
                  ELSE IF email = <<>> \/ ~EMAIL_RE(email) THEN <<Err("Ungueltige E-Mail-Adresse", <<>>)>>
                  ELSE IF email \in seen_emails THEN <<Err("Doppelte E-Mail-Adresse", <<>>)>>
                  ELSE ErrIf(joindate # <<>> /\ join_year = NoYear, "Eintrittsdatum ungueltig", joindate)
    IN [rownum |-> idx, firstname |-> firstname, lastname |-> lastname, email |-> email,
        joindate |-> joindate, join_year |-> join_year, role |-> role, errors |-> errors]

\* one iteration of the loop of validate_rows
ValidateRow(row, idx, seen_emails) ==
    LET firstname == Strip(row.firstname)
        lastname == Strip(row.lastname)
        email == Lower(Strip(row.email))
        joindate == Strip(row.joindate)
        role == Strip(row.role)
        join_year == ParseJoinYear(joindate)
        errors == ErrIf(firstname = <<>>, "Vorname fehlt", <<>>)
                  \o ErrIf(lastname = <<>>, "Nachname fehlt", <<>>)
                  \o ErrIf(email = <<>> \/ ~EMAIL_RE(email), "Ungueltige E-Mail-Adresse", <<>>)
                  \o ErrIf(email \in seen_emails, "Doppelte E-Mail-Adresse", <<>>)
                  \o ErrIf(joindate # <<>> /\ join_year = NoYear, "Eintrittsdatum ungueltig", joindate)
    IN [rownum |-> idx, firstname |-> firstname, lastname |-> lastname, email |-> email,
        joindate |-> joindate, join_year |-> join_year, role |-> role, errors |-> errors]

\* a validator that remembers only the e-mails of rows without errors
RECURSIVE ValidateFrom_SeenOnlyValid(_, _, _)
ValidateFrom_SeenOnlyValid(rows, i, seen_emails) ==
    IF i > Len(rows) THEN <<>>
    ELSE LET v == ValidateRow(rows[i], i + 1, seen_emails)
         IN <<v>> \o ValidateFrom_SeenOnlyValid(rows, i + 1,
                         IF v.errors = <<>> THEN seen_emails \cup {v.email} ELSE seen_emails)

RECURSIVE ValidateFrom(_, _, _)
ValidateFrom(rows, i, seen_emails) ==
    IF i > Len(rows) THEN <<>>
    ELSE LET v == ValidateRow(rows[i], i + 1, seen_emails)
         IN <<v>> \o ValidateFrom(rows, i + 1, seen_emails \cup {v.email})

validate_rows(rows) == ValidateFrom(rows, 1, {})

\* validate_rows tabulated over the batches the model submits
Validated == [b \in Batches |-> validate_rows(b)]

HasErrors(v) == v.errors # <<>>

ErrorFree(validated) == \A i \in 1..Len(validated) : ~HasErrors(validated[i])

(***************************************************************************)
(* Encrypted registry store                                                *)
(***************************************************************************)
\* email_hash = sha256(email.strip().lower()).hexdigest()
Pseudonym(email) == HexDigest(Lower(Strip(email)))

EmptyTable == [p \in {} |-> NULL]

\* the row encrypted without the "if join_year" guard
EncryptRow_YearAlways(row) ==
    [first_name_enc |-> FernetEncrypt(FERNET_KEY, Strip(row.firstname)),
     last_name_enc |-> FernetEncrypt(FERNET_KEY, Strip(row.lastname)),
     join_year |-> FernetEncrypt(FERNET_KEY, Str(row.join_year)),
     role |-> FernetEncrypt(FERNET_KEY, Strip(row.role))]

\* the column values commit_members and commit_sync insert for one validated row
EncryptRow(row) ==
    [first_name_enc |-> FernetEncrypt(FERNET_KEY, Strip(row.firstname)),
     last_name_enc |-> FernetEncrypt(FERNET_KEY, Strip(row.lastname)),
     join_year |-> IF row.join_year # NoYear
                   THEN FernetEncrypt(FERNET_KEY, Str(row.join_year))
                   ELSE NULL,
     role |-> FernetEncrypt(FERNET_KEY, Strip(row.role))]

\* The INSERT loop of a batch commit over rows[i..]: skipErr is the
\* "if row.get('_errors'): continue" of commit_members, absent from commit_sync.
\* An INSERT of a present primary key raises sqlite3.IntegrityError, which
\* neither function catches.
RECURSIVE InsertLoop(_, _, _, _, _, _)
InsertLoop(rows, i, tbl, org, count, skipErr) ==
    IF i > Len(rows) THEN [raised |-> FALSE, tbl |-> tbl, org |-> org, count |-> count]
    ELSE IF skipErr /\ HasErrors(rows[i])
         THEN InsertLoop(rows, i + 1, tbl, org, count, skipErr)
    ELSE LET h == Pseudonym(rows[i].email)
         IN IF h \in DOMAIN tbl
            THEN [raised |-> TRUE, tbl |-> tbl, org |-> org, count |-> count]
            ELSE InsertLoop(rows, i + 1,
                            tbl @@ (h :> EncryptRow(rows[i])),
                            org @@ (h :> HasErrors(rows[i])),
                            count + 1, skipErr)

\* a bulk replace that stops after its first INSERT
commit_members_FirstOnly(validated_rows) ==
    InsertLoop(IF validated_rows = <<>> THEN <<>> ELSE <<Head(validated_rows)>>,
               1, EmptyTable, EmptyTable, 0, TRUE)

\* commit_members: DROP and CREATE run in autocommit mode (the sqlite3 module
\* opens its implicit transaction only before INSERT/UPDATE/DELETE), the
\* INSERTs form one transaction that is rolled back when the loop raises.
commit_members(validated_rows) ==
    LET r == InsertLoop(validated_rows, 1, EmptyTable, EmptyTable, 0, TRUE)
    IN IF r.raised
       THEN [raised |-> TRUE, tbl |-> EmptyTable, org |-> EmptyTable, count |-> 0]
       ELSE r

\* a DELETE loop that counts statements instead of rowcount
RECURSIVE DeleteLoop_CountsEvery(_, _, _, _)
DeleteLoop_CountsEvery(hashes, i, tbl, count) ==
    IF i > Len(hashes) THEN [tbl |-> tbl, count |-> count]
    ELSE DeleteLoop_CountsEvery(hashes, i + 1, [p \in DOMAIN tbl \ {hashes[i]} |-> tbl[p]], count + 1)

\* the DELETE loop of commit_sync: rowcount is 1 for a present key, else 0
RECURSIVE DeleteLoop(_, _, _, _)
DeleteLoop(hashes, i, tbl, count) ==
    IF i > Len(hashes) THEN [tbl |-> tbl, count |-> count]
    ELSE IF hashes[i] \in DOMAIN tbl
         THEN DeleteLoop(hashes, i + 1, [p \in DOMAIN tbl \ {hashes[i]} |-> tbl[p]], count + 1)
         ELSE DeleteLoop(hashes, i + 1, tbl, count)

Restrict(f, S) == [p \in S \cap DOMAIN f |-> f[p]]

\* a sync commit that empties the table before it inserts, like a bulk replace
commit_sync_Replacing(to_delete_hashes, to_add, tbl, org) ==
    LET d == DeleteLoop(to_delete_hashes, 1, tbl, 0)
        a == InsertLoop(to_add, 1, EmptyTable, EmptyTable, 0, FALSE)
    IN IF a.raised
       THEN [raised |-> TRUE, tbl |-> tbl, org |-> org, deleted |-> 0, added |-> 0]
       ELSE [raised |-> FALSE, tbl |-> a.tbl, org |-> a.org, deleted |-> d.count, added |-> a.count]

\* a sync commit that runs its INSERTs before its DELETEs
commit_sync_InsertsFirst(to_delete_hashes, to_add, tbl, org) ==
    LET a == InsertLoop(to_add, 1, tbl, org, 0, FALSE)
        d == DeleteLoop(to_delete_hashes, 1, a.tbl, 0)
    IN IF a.raised
       THEN [raised |-> TRUE, tbl |-> tbl, org |-> org, deleted |-> 0, added |-> 0]
       ELSE [raised |-> FALSE, tbl |-> d.tbl, org |-> Restrict(a.org, DOMAIN d.tbl),
             deleted |-> d.count, added |-> a.count]

\* commit_sync on an existing table: deletes, then inserts, one transaction
commit_sync(to_delete_hashes, to_add, tbl, org) ==
    LET d == DeleteLoop(to_delete_hashes, 1, tbl, 0)
        a == InsertLoop(to_add, 1, d.tbl, Restrict(org, DOMAIN d.tbl), 0, FALSE)
    IN IF a.raised
       THEN [raised |-> TRUE, tbl |-> tbl, org |-> org, deleted |-> 0, added |-> 0]
       ELSE [raised |-> FALSE, tbl |-> a.tbl, org |-> a.org, deleted |-> d.count, added |-> a.count]

MASK == <<"?">>

\* the decrypt block shared by members_list and sync_members: one try around
\* all four fields
MemberView(h, row) ==
    LET fn == FernetDecrypt(FERNET_KEY, row.first_name_enc)
        ln == FernetDecrypt(FERNET_KEY, row.last_name_enc)
        jy == IF row.join_year # NULL THEN FernetDecrypt(FERNET_KEY, row.join_year) ELSE <<>>
        ro == IF row.role # NULL THEN FernetDecrypt(FERNET_KEY, row.role) ELSE <<>>
    IN IF DecryptFailed \in {fn, ln, jy, ro}
       THEN [email_hash |-> h, firstname |-> MASK, lastname |-> MASK, join_year |-> <<>>, role |-> <<>>]
       ELSE [email_hash |-> h, firstname |-> fn, lastname |-> ln, join_year |-> jy, role |-> ro]

\* a listing that leaves out the records it cannot decrypt
members_list_SkipsUndecryptable(tbl) ==
    {MemberView(h, tbl[h]) : h \in {g \in DOMAIN tbl : MemberView(g, tbl[g]).firstname # MASK}}

\* the members list built by members_list (its order is that of the ciphertexts)
members_list(tbl) == {MemberView(h, tbl[h]) : h \in DOMAIN tbl}

(***************************************************************************)
(* sync_members: the diff                                                  *)
(***************************************************************************)
\* csv_email_hashes
CsvHashes(validated_rows) ==
    {Pseudonym(validated_rows[i].email) : i \in {j \in 1..Len(validated_rows) : ~HasErrors(validated_rows[j])}}

InStore(tbl, row) == Pseudonym(row.email) \in DOMAIN tbl

\* a to_delete list that does not look at the staged pseudonyms
SyncToDelete_All(validated_rows, tbl) ==
    {MemberView(h, tbl[h]) : h \in DOMAIN tbl}

SyncToDelete(validated_rows, tbl) ==
    {MemberView(h, tbl[h]) : h \in {g \in DOMAIN tbl : g \notin CsvHashes(validated_rows)}}

\* a to_add list that does not look at the store
SyncToAdd_All(validated_rows, tbl) ==
    SelectSeq(validated_rows, LAMBDA r : ~HasErrors(r))

SyncToAdd(validated_rows, tbl) ==
    SelectSeq(validated_rows, LAMBDA r : ~HasErrors(r) /\ ~InStore(tbl, r))

SyncExisting(validated_rows, tbl) ==
    SelectSeq(validated_rows, LAMBDA r : ~HasErrors(r) /\ InStore(tbl, r))

sync_members(validated_rows, tbl) ==
    [to_delete |-> SyncToDelete(validated_rows, tbl),
     to_add |-> SyncToAdd(validated_rows, tbl),
     existing |-> SyncExisting(validated_rows, tbl)]

(***************************************************************************)
(* upload_members: the older one-step bulk import                          *)
(***************************************************************************)
AllFields == {"email", "firstname", "lastname", "joindate", "role"}

\* dateutil's parser.parse(raw, dayfirst=True), on the texts the two strptime
\* formats rejected: day/month/year separated by slashes parses, other text raises
DateutilYear(s) == StrptimeYear(s, "/", 1, 2, 3)

UploadJoinYear(raw_date) ==
    IF raw_date = <<>> THEN NoYear
    ELSE IF StrptimeDMY(raw_date) # NoYear THEN StrptimeDMY(raw_date)
    ELSE IF StrptimeISO(raw_date) # NoYear THEN StrptimeISO(raw_date)
    ELSE DateutilYear(raw_date)

UploadEncryptRow(row) ==
    [first_name_enc |-> FernetEncrypt(FERNET_KEY, Strip(row.firstname)),
     last_name_enc |-> FernetEncrypt(FERNET_KEY, Strip(row.lastname)),
     join_year |-> IF UploadJoinYear(Strip(row.joindate)) # NoYear
                   THEN FernetEncrypt(FERNET_KEY, Str(UploadJoinYear(Strip(row.joindate))))
                   ELSE NULL,
     role |-> FernetEncrypt(FERNET_KEY, Strip(row.role))]

\* the row loop of upload_members: a row with an empty mandatory field raises
\* ValueError, a present key raises IntegrityError; both are caught per row
RECURSIVE UploadLoop(_, _, _, _, _)
UploadLoop(rows, i, tbl, org, count) ==
    IF i > Len(rows) THEN [tbl |-> tbl, org |-> org, count |-> count]
    ELSE LET email == Lower(Strip(rows[i].email))
             h == HexDigest(email)
             missing == email = <<>> \/ Strip(rows[i].firstname) = <<>> \/ Strip(rows[i].lastname) = <<>>
         IN IF missing \/ h \in DOMAIN tbl
            THEN UploadLoop(rows, i + 1, tbl, org, count)
            ELSE UploadLoop(rows, i + 1,
                            tbl @@ (h :> UploadEncryptRow(rows[i])),
                            org @@ (h :> FALSE),
                            count + 1)

(***************************************************************************)
(* Requests and the admin gate                                             *)
(***************************************************************************)
ADMIN_EMAILS == {"admin@example.com"}

\* current_user of a request: an administrator, another member, or nobody
Users == {"admin@example.com", "user@example.com", None}

\* view functions whose registered route is the admin_required wrapper
Decorated == {"upload_members", "sync_validate", "sync_commit", "members_list",
              "member_edit", "member_save", "members_delete"}

\* view functions registered before admin_required was applied to them
\* (@admin_required written above @admin_bp.post/route)
Undecorated == {"import_validate", "import_commit"}

Resp(status, body) == [status |-> status, body |-> body]

\* admin_required: the anonymous user object has no email attribute (500);
\* another user is aborted with 403, which the blueprint turns into 404
admin_required(user) ==
    IF user = None THEN 500
    ELSE IF user \notin ADMIN_EMAILS THEN 404
    ELSE 200

\* what the registered route of view function op does before the body runs
Gate(op, user) == IF op \in Decorated THEN admin_required(user) ELSE 200

Req(op, user, arg) == [op |-> op, user |-> user, arg |-> arg]

\* the response of "return members_list()" for a user who passed the gate
ListResponse(exists, tbl) ==
    IF exists THEN Resp(200, members_list(tbl)) ELSE Resp(500, "OperationalError")

(***************************************************************************)
(* Admin requests, each handler run to completion                          *)
(***************************************************************************)
MaxDelete == 1    \* longest delete list a sync-commit form carries
MaxAdd == 1       \* longest add list a sync-commit form carries

\* the empty email_hash form field
NoHash == [hex |-> [alg |-> "none", msg |-> <<>>], len |-> 0]

Hashes == {Pseudonym(eA), Pseudonym(eB)}

DeleteLists == SeqsUpTo(Hashes, MaxDelete)

AddLists == SeqsUpTo(RawRows, MaxAdd)

Files == {[fields |-> AllFields, rows |-> b] : b \in Batches}
         \cup {[fields |-> AllFields \ {"role"}, rows |-> <<>>]}

EditForm(e, f, l, j, r, h) ==
    [new_email |-> e, firstname |-> f, lastname |-> l, join_year |-> j, role |-> r, email_hash |-> h]

EditForms ==
    { EditForm(eB, nBo, nAna, <<"2", "0", "2", "1">>, <<>>, NoHash),
      EditForm(<<>>, nCy, nBo, <<>>, rMit, Pseudonym(eA)),
      EditForm(<<>>, <<>>, <<>>, <<>>, <<>>, NoHash) }

\* the column values member_edit and member_save write
EncryptForm(form) ==
    [first_name_enc |-> FernetEncrypt(FERNET_KEY, Strip(form.firstname)),
     last_name_enc |-> FernetEncrypt(FERNET_KEY, Strip(form.lastname)),
     join_year |-> IF Strip(form.join_year) # <<>>
                   THEN FernetEncrypt(FERNET_KEY, Strip(form.join_year))
                   ELSE NULL,
     role |-> IF Strip(form.role) # <<>>
              THEN FernetEncrypt(FERNET_KEY, Strip(form.role))
              ELSE NULL]

Without(f, h) == [p \in DOMAIN f \ {h} |-> f[p]]

NumErrors(validated) == Cardinality({i \in 1..Len(validated) : HasErrors(validated[i])})

\* the wrapper of a decorated view refuses the request before the view reads it
Denied(op, user) ==
    /\ op \in Decorated
    /\ Gate(op, user) # 200
    /\ lastReq' = Req(op, user, <<>>)
    /\ resp' = Resp(Gate(op, user), "denied")
    /\ UNCHANGED <<regVars, tokVars, concVars, app, heap>>

\* The view runs. lastReq keeps the submitted data of a request the view
\* went on to process, and nothing of one it turned away.
Serve(op, user, accepted, arg) ==
    /\ Gate(op, user) = 200
    /\ lastReq' = Req(op, user, IF accepted THEN arg ELSE <<>>)
    /\ UNCHANGED <<tokVars, concVars, app, heap>>

\* a committed write
Wrote(exists, tbl, org) ==
    /\ tableExists' = exists
    /\ members' = tbl
    /\ origin' = org

UploadMembers(user, file) ==
    /\ Serve("upload_members", user, file.fields = AllFields, file.rows)
    /\ IF file.fields # AllFields
       THEN /\ resp' = Resp(302, "Error processing CSV")
            /\ UNCHANGED regVars
       ELSE LET r == UploadLoop(file.rows, 1, EmptyTable, EmptyTable, 0)
            IN /\ Wrote(TRUE, r.tbl, r.org)
               /\ resp' = Resp(302, r.count)

ImportValidate(user, rows) ==
    /\ Serve("import_validate", user, FALSE, rows)
    /\ resp' = Resp(200, NumErrors(Validated[rows]))
    /\ UNCHANGED regVars

ImportCommit(user, rows) ==
    /\ Serve("import_commit", user, ErrorFree(Validated[rows]), rows)
    /\ LET validated == Validated[rows]
       IN IF ~ErrorFree(validated)
          THEN /\ resp' = Resp(200, NumErrors(validated))
               /\ UNCHANGED regVars
          ELSE LET r == commit_members(validated)
               IN /\ Wrote(TRUE, r.tbl, r.org)
                  /\ resp' = IF r.raised THEN Resp(500, "IntegrityError")
                             ELSE Resp(302, r.count)

SyncValidate(user, rows) ==
    /\ Serve("sync_validate", user, tableExists /\ ErrorFree(Validated[rows]), rows)
    /\ UNCHANGED regVars
    /\ LET validated == Validated[rows]
       IN resp' = IF ~ErrorFree(validated) THEN Resp(400, NumErrors(validated))
                  ELSE IF ~tableExists THEN Resp(500, "OperationalError")
                  ELSE Resp(200, sync_members(validated, members))

SyncCommit(user, to_delete_hashes, to_add) ==
    /\ LET validated_to_add == Validated[to_add]
           r == commit_sync(to_delete_hashes, validated_to_add, members, origin)
       IN /\ Serve("sync_commit", user,
                   (tableExists \/ (to_delete_hashes = <<>> /\ to_add = <<>>)) /\ ~r.raised,
                   [delete |-> to_delete_hashes, add |-> to_add])
          /\ IF ~tableExists /\ (to_delete_hashes # <<>> \/ to_add # <<>>)
             THEN /\ resp' = Resp(500, "OperationalError")
                  /\ UNCHANGED regVars
             ELSE IF r.raised
             THEN /\ resp' = Resp(500, "IntegrityError")
                  /\ UNCHANGED regVars
             ELSE /\ Wrote(tableExists, r.tbl, r.org)
                  /\ resp' = Resp(302, [deleted |-> r.deleted, added |-> r.added])

MembersList(user) ==
    /\ Serve("members_list", user, TRUE, <<>>)
    /\ resp' = ListResponse(tableExists, members)
    /\ UNCHANGED regVars

\* member_edit, POST
MemberEdit(user, email_hash, form) ==
    /\ Serve("member_edit", user, TRUE, [email_hash |-> email_hash, form |-> form])
    /\ LET new_email == Lower(Strip(form.new_email))
           new_hash == IF new_email # <<>> THEN HexDigest(new_email) ELSE email_hash
       IN IF ~tableExists
          THEN /\ resp' = Resp(500, "OperationalError")
               /\ UNCHANGED regVars
          ELSE IF email_hash \notin DOMAIN members
          THEN /\ resp' = ListResponse(tableExists, members)
               /\ UNCHANGED regVars
          ELSE IF new_hash # email_hash /\ new_hash \in DOMAIN members
          THEN /\ resp' = Resp(500, "IntegrityError")
               /\ UNCHANGED regVars
          ELSE /\ Wrote(TRUE,
                        Without(members, email_hash) @@ (new_hash :> EncryptForm(form)),
                        Without(origin, email_hash) @@ (new_hash :> FALSE))
               /\ resp' = ListResponse(TRUE, members')

MemberSave(user, form) ==
    /\ Serve("member_save", user, TRUE, form)
    /\ LET email == Lower(Strip(form.new_email))
           email_hash == IF form.email_hash # NoHash THEN form.email_hash ELSE HexDigest(email)
       IN IF form.email_hash = NoHash /\ email = <<>>
          THEN /\ resp' = ListResponse(tableExists, members)
               /\ UNCHANGED regVars
          ELSE IF ~tableExists
          THEN /\ resp' = Resp(500, "OperationalError")
               /\ UNCHANGED regVars
          ELSE /\ Wrote(TRUE,
                        Without(members, email_hash) @@ (email_hash :> EncryptForm(form)),
                        Without(origin, email_hash) @@ (email_hash :> FALSE))
               /\ resp' = ListResponse(TRUE, members')

\* a members_delete that removes the member's photo file along with the record
MembersDelete_RemovesPhoto(user, email_hash) ==
    /\ Gate("members_delete", user) = 200
    /\ lastReq' = Req("members_delete", user, email_hash)
    /\ IF ~tableExists
       THEN /\ resp' = Resp(500, "OperationalError")
            /\ UNCHANGED <<regVars, photos, uploaded>>
       ELSE /\ tableExists' = TRUE
            /\ members' = Without(members, email_hash)
            /\ origin' = Without(origin, email_hash)
            /\ photos' = Without(photos, [hex |-> email_hash.hex, len |-> 16])
            /\ uploaded' = Without(uploaded, [hex |-> email_hash.hex, len |-> 16])
            /\ resp' = ListResponse(TRUE, members')
    /\ UNCHANGED <<now, issued, session, fileReads, concVars, app, heap>>

MembersDelete(user, email_hash) ==
    /\ Serve("members_delete", user, TRUE, email_hash)
    /\ IF ~tableExists
       THEN /\ resp' = Resp(500, "OperationalError")
            /\ UNCHANGED regVars
       ELSE /\ tableExists' = TRUE
            /\ members' = Without(members, email_hash)
            /\ origin' = Without(origin, email_hash)
            /\ resp' = ListResponse(TRUE, members')

(***************************************************************************)
(* Python values and their JSON encoding inside a token                    *)
(***************************************************************************)
PyStr(text) == [t |-> "str", v |-> text]

PyNone == [t |-> "None", v |-> <<>>]

\* dict.get(key): the value, or None for a missing key
Get(dict, key) == IF key \in DOMAIN dict THEN dict[key] ELSE PyNone

\* json.dumps of a str or None
JsonValue(x) == IF x.t = "None" THEN [j |-> "null", v |-> <<>>] ELSE [j |-> "string", v |-> x.v]

\* json.dumps of a dict with text keys and str or None values
JsonDumps(dict) == [j |-> "object", v |-> [key \in DOMAIN dict |-> JsonValue(dict[key])]]

PyValue(doc) == IF doc.j = "null" THEN PyNone ELSE PyStr(doc.v)

\* json.loads
JsonLoads(doc) ==
    IF doc.j = "object" THEN [key \in DOMAIN doc.v |-> PyValue(doc.v[key])] ELSE PyValue(doc)

(***************************************************************************)
(* itsdangerous.URLSafeTimedSerializer                                     *)
(***************************************************************************)
\* the signer's key: a hash over salt, "signer" and the secret key
DeriveKey(secret_key, salt) == [secret |-> secret_key, salt |-> salt]

\* HMAC over payload and timestamp
Signature(key, doc, ts) == [key |-> key, doc |-> doc, ts |-> ts]

\* s.dumps(obj) at time t: payload, timestamp, signature
Dumps(secret_key, salt, doc, t) ==
    [doc |-> doc, ts |-> t, sig |-> Signature(DeriveKey(secret_key, salt), doc, t)]

Loaded(err, val) == [err |-> err, val |-> val]

\* s.loads(token, max_age) with expiry at an age of max_age itself
Loads_ExpiredAtMaxAge(secret_key, salt, token, max_age, t) ==
    IF token.sig # Signature(DeriveKey(secret_key, salt), token.doc, token.ts)
    THEN Loaded("BadSignature", PyNone)
    ELSE IF t - token.ts >= max_age THEN Loaded("SignatureExpired", PyNone)
    ELSE Loaded("", JsonLoads(token.doc))

\* s.loads(token, max_age) at time t: the signature is checked first, then
\* the age (expired when age > max_age), then the payload is decoded
Loads(secret_key, salt, token, max_age, t) ==
    IF token.sig # Signature(DeriveKey(secret_key, salt), token.doc, token.ts)
    THEN Loaded("BadSignature", PyNone)
    ELSE IF t - token.ts > max_age THEN Loaded("SignatureExpired", PyNone)
    ELSE Loaded("", JsonLoads(token.doc))

(***************************************************************************)
(* token_manager                                                           *)
(***************************************************************************)
SECRET_KEY == "secret-key"

\* os.getenv("SECRET_KEY") in a deployment that sets the variable
EnvSecret == SECRET_KEY

TOKEN_MAX_AGE_SECONDS == 3600

EMAIL_MAX_AGE == 900

TOKEN_SALT == "#AllezRCB"

\* a magic-link serializer salted like the card serializer
EMAIL_SALT_Shared == TOKEN_SALT

EMAIL_SALT == "email-login"

(***************************************************************************)
(* load_config and create_app                                              *)
(***************************************************************************)
\* os.getenv of a variable that is not set
Unset == "unset"

Environment(secret_key, fernet_key) == [SECRET_KEY |-> secret_key, FERNET_KEY |-> fernet_key]

\* Fernet.generate_key()
GeneratedKey == "generated-fernet-key"

\* load_config: SECRET_KEY has a default, FERNET_KEY is generated when absent
load_config(env) ==
    [SECRET_KEY |-> IF env.SECRET_KEY = Unset THEN "fallback-secret" ELSE env.SECRET_KEY,
     FERNET_KEY |-> IF env.FERNET_KEY = Unset THEN GeneratedKey ELSE env.FERNET_KEY]

\* create_app: "if not fernet_key: raise RuntimeError" is its only check
create_app(env) ==
    [env |-> env, config |-> load_config(env), running |-> load_config(env).FERNET_KEY # ""]

generate_token(user_data, t) == Dumps(SECRET_KEY, TOKEN_SALT, JsonDumps(user_data), t)

\* a decode_token that hands out the payload carried by SignatureExpired
decode_token_ExpiredPayload(token, t) ==
    LET loaded == Loads(SECRET_KEY, TOKEN_SALT, token, TOKEN_MAX_AGE_SECONDS, t)
    IN IF loaded.err = "SignatureExpired" THEN JsonLoads(token.doc) ELSE loaded.val

\* the payload, or None for an expired or badly signed token
decode_token(token, t) == Loads(SECRET_KEY, TOKEN_SALT, token, TOKEN_MAX_AGE_SECONDS, t).val

generate_email_token(email, t) == Dumps(EnvSecret, EMAIL_SALT, JsonValue(PyStr(email)), t)

\* a magic link that lives as long as a card token
verify_email_token_CardMaxAge(token, t) ==
    Loads(EnvSecret, EMAIL_SALT, token, TOKEN_MAX_AGE_SECONDS, t).val

verify_email_token(token, t) == Loads(EnvSecret, EMAIL_SALT, token, EMAIL_MAX_AGE, t).val

\* the client holds no link
NoToken == [flow |-> "none", data |-> PyNone, tok |-> Dumps("", "", JsonValue(PyNone), 0)]

\* the link of a flow: the token and, for the record, what it was made from
Link(flow, data, tok) == [flow |-> flow, data |-> data, tok |-> tok]

\* the same payload and timestamp signed by someone who guesses the secret
Forged(token) == [token EXCEPT !.sig.key.secret = "guess"]

(***************************************************************************)
(* Sessions and the card payload                                           *)
(***************************************************************************)
Userinfo(email, first_name, last_name, name) ==
    [email |-> email, first_name |-> first_name, last_name |-> last_name, name |-> name]

NoUserinfo == Userinfo(<<>>, <<>>, <<>>, <<>>)

\* the session after session.clear(): no userinfo, no oauth_state, and no
\* _user_id of flask-login (current_user is anonymous)
NoSession ==
    [oauth_userinfo |-> NoUserinfo, email_userinfo |-> NoUserinfo,
     oauth_state |-> None, user_id |-> <<>>]

\* session.get("oauth_userinfo") or session.get("email_userinfo")
SessionUserinfo(sess) ==
    IF sess.oauth_userinfo # NoUserinfo THEN sess.oauth_userinfo ELSE sess.email_userinfo

\* str.split(): the words of s
Words(s) == SelectSeq(Split(s, " "), LAMBDA w : w # <<>>)

\* " ".join(words[i..])
RECURSIVE JoinFrom(_, _)
JoinFrom(words, i) ==
    IF i > Len(words) THEN <<>>
    ELSE IF i = Len(words) THEN words[i]
    ELSE words[i] \o <<" ">> \o JoinFrom(words, i + 1)

\* _normalize_name
NormalizeName(userinfo) ==
    IF userinfo.first_name # <<>> /\ userinfo.last_name # <<>>
    THEN [first |-> userinfo.first_name, last |-> userinfo.last_name]
    ELSE LET parts == Words(Strip(userinfo.name))
         IN [first |-> IF parts # <<>> THEN parts[1] ELSE <<"U", "n", "k", "n", "o", "w", "n">>,
             last |-> JoinFrom(parts, 2)]

\* _fetch_role_and_year: the lookup hashes the e-mail as it stands in the
\* session; every failure is swallowed
FetchRoleAndYear(email, exists, tbl) ==
    LET h == HexDigest(email)
    IN IF ~exists \/ h \notin DOMAIN tbl
       THEN [role |-> PyStr(<<>>), join_year |-> PyNone]
       ELSE LET ro == IF tbl[h].role # NULL THEN FernetDecrypt(FERNET_KEY, tbl[h].role) ELSE <<>>
                jy == IF tbl[h].join_year # NULL
                      THEN FernetDecrypt(FERNET_KEY, tbl[h].join_year) ELSE DecryptFailed
            IN [role |-> IF ro = DecryptFailed THEN PyStr(<<>>) ELSE PyStr(ro),
                join_year |-> IF jy = DecryptFailed THEN PyNone ELSE PyStr(jy)]

\* the payload without its photo_id entry
build_user_data_NoPhotoId(sess, exists, tbl) ==
    LET userinfo == SessionUserinfo(sess)
        nm == NormalizeName(userinfo)
        ry == FetchRoleAndYear(userinfo.email, exists, tbl)
    IN [user_id |-> PyStr(userinfo.email),
        first_name |-> PyStr(nm.first),
        last_name |-> PyStr(nm.last),
        role |-> ry.role,
        join_year |-> ry.join_year]

\* build_user_data_from_session, for a session that holds an e-mail
build_user_data(sess, exists, tbl) ==
    LET userinfo == SessionUserinfo(sess)
        nm == NormalizeName(userinfo)
        ry == FetchRoleAndYear(userinfo.email, exists, tbl)
    IN [user_id |-> PyStr(userinfo.email),
        first_name |-> PyStr(nm.first),
        last_name |-> PyStr(nm.last),
        role |-> ry.role,
        photo_id |-> PyStr(PhotoId(userinfo.email)),
        join_year |-> ry.join_year]

(***************************************************************************)
(* The registry under sequential requests of an administrator              *)
(***************************************************************************)
InitReg ==
    /\ tableExists = FALSE
    /\ members = EmptyTable
    /\ origin = EmptyTable

InitHttp ==
    /\ lastReq = Req("none", None, <<>>)
    /\ resp = Resp(0, <<>>)

\* Two requests in service at once: Flask's development server (app.run) is
\* threaded, and each handler opens its own lock file descriptor and its own
\* connection, so two threads contend exactly as two processes do.
Workers == {"w1", "w2"}

\* a connection that has read and written nothing
NoPend == [tbl |-> EmptyTable, org |-> EmptyTable, found |-> FALSE]

InitTok ==
    /\ now = 0
    /\ issued = NoToken
    /\ session = NoSession
    /\ photos = EmptyTable
    /\ uploaded = EmptyTable
    /\ fileReads = {}

InitConc ==
    /\ pc = [w \in Workers |-> "idle"]
    /\ job = [w \in Workers |-> 0]
    /\ pend = [w \in Workers |-> NoPend]
    /\ advLock = None
    /\ dbWriter = None

\* the process was started with both secrets in its environment
InitApp == app = create_app(Environment(SECRET_KEY, FERNET_KEY))

\* no SELECT of a member_save is waiting for its write
NoFind == <<>>

\* no members table yet, as in InitReg
InitHeap == heap = [exists |-> FALSE, rows |-> <<>>, find |-> [w \in Workers |-> NoFind]]

Init == InitReg /\ InitHttp /\ InitTok /\ InitConc /\ InitApp /\ InitHeap

NextReg ==
    \E user \in ADMIN_EMAILS :
        \/ \E file \in Files : UploadMembers(user, file)
        \/ \E rows \in Batches : ImportValidate(user, rows)
        \/ \E rows \in Batches : ImportCommit(user, rows)
        \/ \E rows \in Batches : SyncValidate(user, rows)
        \/ \E d \in DeleteLists, rows \in AddLists : SyncCommit(user, d, rows)
        \/ MembersList(user)
        \/ \E h \in Hashes, form \in EditForms : MemberEdit(user, h, form)
        \/ \E form \in EditForms : MemberSave(user, form)
        \/ \E h \in Hashes : MembersDelete(user, h)

SpecReg == Init /\ [][NextReg]_vars

(***************************************************************************)
(* The admin blueprint under requests of any user: an administrator,       *)
(* another logged-in member, or a client that is not logged in             *)
(***************************************************************************)
\* the uploads with at most MaxAdd rows
GateFiles == {f \in Files : Len(f.rows) <= MaxAdd}

NextGate ==
    \E user \in Users :
        \/ \E op \in Decorated : Denied(op, user)
        \/ \E file \in GateFiles : UploadMembers(user, file)
        \/ \E rows \in AddLists : ImportValidate(user, rows)
        \/ \E rows \in AddLists : ImportCommit(user, rows)
        \/ \E rows \in AddLists : SyncValidate(user, rows)
        \/ \E d \in DeleteLists, rows \in AddLists : SyncCommit(user, d, rows)
        \/ MembersList(user)
        \/ \E h \in Hashes, form \in EditForms : MemberEdit(user, h, form)
        \/ \E form \in EditForms : MemberSave(user, form)
        \/ \E h \in Hashes : MembersDelete(user, h)

SpecGate == Init /\ [][NextGate]_vars

(***************************************************************************)
(* Writers of the registry in two worker processes, statement by statement *)
(***************************************************************************)
Admin == CHOOSE u \in ADMIN_EMAILS : TRUE

\* the write requests the two workers serve
ConcJobs ==
    << Req("import_commit", Admin, <<RawRow(nAna, nBo, eA, dDMY, rMit),
                                     RawRow(nBo, nCy, eB, dISO, <<>>)>>),
      Req("upload_members", Admin, <<RawRow(nBo, nCy, eB, dISO, <<>>)>>),
      Req("sync_commit", Admin, [delete |-> <<Pseudonym(eA)>>,
                                 add |-> <<RawRow(nBo, nCy, eB, dISO, <<>>)>>]),
      Req("member_save", Admin, EditForm(eA, nBo, nAna, <<"2", "0", "2", "1">>, <<>>, NoHash)),
      Req("member_edit", Admin, [email_hash |-> Pseudonym(eA),
                                 form |-> EditForm(eB, nCy, nBo, <<>>, rMit, NoHash)]),
      Req("members_delete", Admin, Pseudonym(eB)) >>

\* the request worker w serves; a worker that has served none yet is at 0
Job(w) == IF job[w] \in DOMAIN ConcJobs THEN ConcJobs[job[w]] ELSE Req("none", None, <<>>)

\* handlers that take portalocker.lock(lock_file, LOCK_EX) around their writes
Locking == {"import_commit", "upload_members", "sync_commit"}

\* handlers that start with DROP TABLE IF EXISTS / CREATE TABLE
Replacing == {"import_commit", "upload_members"}

\* email_hash of member_save: the form field, else the hash of new_email
SaveHash(form) ==
    IF form.email_hash # NoHash THEN form.email_hash ELSE HexDigest(Lower(Strip(form.new_email)))

Outcome(raised, tbl, org) == [raised |-> raised, tbl |-> tbl, org |-> org]

\* The INSERT/UPDATE/DELETE statements of request j, run on the committed
\* table tbl inside the connection's implicit transaction; found is what
\* member_save's SELECT COUNT(*) returned earlier.
Statements(j, found, tbl, org) ==
    CASE j.op = "import_commit" ->
             LET r == InsertLoop(Validated[j.arg], 1, tbl, org, 0, TRUE)
             IN Outcome(r.raised, r.tbl, r.org)
      [] j.op = "upload_members" ->
             LET r == UploadLoop(j.arg, 1, tbl, org, 0)
             IN Outcome(FALSE, r.tbl, r.org)
      [] j.op = "sync_commit" ->
             LET r == commit_sync(j.arg.delete, Validated[j.arg.add], tbl, org)
             IN Outcome(r.raised, r.tbl, r.org)
      [] j.op = "member_save" ->
             LET h == SaveHash(j.arg)
             IN IF found
                THEN IF h \in DOMAIN tbl
                     THEN Outcome(FALSE, Without(tbl, h) @@ (h :> EncryptForm(j.arg)),
                                  Without(org, h) @@ (h :> FALSE))
                     ELSE Outcome(FALSE, tbl, org)
                ELSE IF h \in DOMAIN tbl
                     THEN Outcome(TRUE, tbl, org)
                     ELSE Outcome(FALSE, tbl @@ (h :> EncryptForm(j.arg)), org @@ (h :> FALSE))
      [] j.op = "member_edit" ->
             LET new_email == Lower(Strip(j.arg.form.new_email))
                 new_hash == IF new_email # <<>> THEN HexDigest(new_email) ELSE j.arg.email_hash
             IN IF j.arg.email_hash \notin DOMAIN tbl THEN Outcome(FALSE, tbl, org)
                ELSE IF new_hash # j.arg.email_hash /\ new_hash \in DOMAIN tbl
                THEN Outcome(TRUE, tbl, org)
                ELSE Outcome(FALSE,
                             Without(tbl, j.arg.email_hash) @@ (new_hash :> EncryptForm(j.arg.form)),
                             Without(org, j.arg.email_hash) @@ (new_hash :> FALSE))
      [] OTHER -> Outcome(FALSE, Without(tbl, j.arg), Without(org, j.arg))

Goto(w, label) == pc' = [pc EXCEPT ![w] = label]

\* a worker picks up a request; a locking handler opens the lock file
Begin(w, i) ==
    /\ pc[w] = "idle"
    /\ job' = [job EXCEPT ![w] = i]
    /\ pend' = [pend EXCEPT ![w] = NoPend]
    /\ Goto(w, IF ConcJobs[i].op \in Locking THEN "lock"
                ELSE IF ConcJobs[i].op = "member_save" THEN "select" ELSE "write")
    /\ UNCHANGED <<regVars, httpVars, tokVars, app, heap, advLock, dbWriter>>

\* portalocker.lock(lock_file, LOCK_EX) returns
Acquire(w) ==
    /\ pc[w] = "lock"
    /\ advLock = None
    /\ advLock' = w
    /\ Goto(w, IF Job(w).op \in Replacing THEN "drop" ELSE "write")
    /\ UNCHANGED <<regVars, httpVars, tokVars, app, heap, job, pend, dbWriter>>

\* DROP TABLE IF EXISTS members, committed at once: the sqlite3 module opens
\* its implicit transaction only before INSERT, UPDATE and DELETE
Drop(w) ==
    /\ pc[w] = "drop"
    /\ dbWriter = None
    /\ Wrote(FALSE, EmptyTable, EmptyTable)
    /\ Goto(w, "create")
    /\ UNCHANGED <<httpVars, tokVars, app, heap, job, pend, advLock, dbWriter>>

\* CREATE TABLE members, committed at once
Create(w) ==
    /\ pc[w] = "create"
    /\ dbWriter = None
    /\ Wrote(TRUE, members, origin)
    /\ Goto(w, "write")
    /\ UNCHANGED <<httpVars, tokVars, app, heap, job, pend, advLock, dbWriter>>

\* SELECT COUNT(*) FROM members WHERE email_hash = ? of member_save
Select(w) ==
    /\ pc[w] = "select"
    /\ IF tableExists
       THEN /\ pend' = [pend EXCEPT ![w].found = SaveHash(Job(w).arg) \in DOMAIN members]
            /\ Goto(w, "write")
       ELSE /\ Goto(w, "raised")
            /\ UNCHANGED pend
    /\ UNCHANGED <<regVars, httpVars, tokVars, app, heap, job, advLock, dbWriter>>

\* Write on a connection in autocommit mode (isolation_level=None): the
\* DELETE statements that ran before the failing INSERT stay in the store
Write_DeletesAutocommitted(w) ==
    /\ pc[w] = "write"
    /\ dbWriter = None
    /\ LET r == Statements(Job(w), pend[w].found, members, origin)
           d == DeleteLoop(Job(w).arg.delete, 1, members, 0)
       IN IF ~tableExists \/ r.raised
          THEN /\ Goto(w, "raised")
               /\ IF tableExists /\ Job(w).op = "sync_commit"
                  THEN Wrote(TRUE, d.tbl, Restrict(origin, DOMAIN d.tbl))
                  ELSE UNCHANGED regVars
               /\ UNCHANGED <<pend, dbWriter>>
          ELSE /\ pend' = [pend EXCEPT ![w].tbl = r.tbl, ![w].org = r.org]
               /\ dbWriter' = w
               /\ Goto(w, "commit")
               /\ UNCHANGED regVars
    /\ UNCHANGED <<httpVars, tokVars, app, heap, job, advLock>>

\* Write on a connection in autocommit mode: the first INSERT of a bulk
\* replace is in the store while the others are still to come
Write_InsertsAutocommitted(w) ==
    /\ pc[w] = "write"
    /\ dbWriter = None
    /\ LET r == Statements(Job(w), pend[w].found, members, origin)
           first == commit_members_FirstOnly(Validated[Job(w).arg])
       IN IF ~tableExists \/ r.raised
          THEN /\ Goto(w, "raised")
               /\ UNCHANGED <<regVars, pend, dbWriter>>
          ELSE /\ pend' = [pend EXCEPT ![w].tbl = r.tbl, ![w].org = r.org]
               /\ dbWriter' = w
               /\ Goto(w, "commit")
               /\ IF Job(w).op = "import_commit"
                  THEN Wrote(TRUE, first.tbl, first.org)
                  ELSE UNCHANGED regVars
    /\ UNCHANGED <<httpVars, tokVars, app, heap, job, advLock>>

\* The handler's INSERT/UPDATE/DELETE statements: the first one takes
\* SQLite's write lock. A statement that raises ends the handler; the
\* connection is dropped and its transaction rolled back.
Write(w) ==
    /\ pc[w] = "write"
    /\ dbWriter = None
    /\ LET r == Statements(Job(w), pend[w].found, members, origin)
       IN IF ~tableExists \/ r.raised
          THEN /\ Goto(w, "raised")
               /\ UNCHANGED <<pend, dbWriter>>
          ELSE /\ pend' = [pend EXCEPT ![w].tbl = r.tbl, ![w].org = r.org]
               /\ dbWriter' = w
               /\ Goto(w, "commit")
    /\ UNCHANGED <<regVars, httpVars, tokVars, app, heap, job, advLock>>

\* the write lock stayed taken for the connection's busy timeout:
\* sqlite3.OperationalError, database is locked
Busy(w) ==
    /\ pc[w] \in {"drop", "create", "write"}
    /\ dbWriter \notin {None, w}
    /\ Goto(w, "raised")
    /\ UNCHANGED <<regVars, httpVars, tokVars, app, heap, job, pend, advLock, dbWriter>>

\* conn.commit()
Commit(w) ==
    /\ pc[w] = "commit"
    /\ Wrote(TRUE, pend[w].tbl, pend[w].org)
    /\ dbWriter' = None
    /\ Goto(w, "done")
    /\ UNCHANGED <<httpVars, tokVars, app, heap, job, pend, advLock>>

\* Return, had the lock file been closed after conn.close() only, not by a
\* with block
Return_KeepsLockOnError(w) ==
    /\ pc[w] \in {"done", "raised"}
    /\ advLock' = IF advLock = w /\ pc[w] = "done" THEN None ELSE advLock
    /\ Goto(w, "idle")
    /\ UNCHANGED <<regVars, httpVars, tokVars, app, heap, job, pend, dbWriter>>

\* the handler returns or unwinds; leaving "with open(LOCK_PATH)" closes the
\* lock file, which drops the lock
Return(w) ==
    /\ pc[w] \in {"done", "raised"}
    /\ advLock' = IF advLock = w THEN None ELSE advLock
    /\ Goto(w, "idle")
    /\ UNCHANGED <<regVars, httpVars, tokVars, app, heap, job, pend, dbWriter>>

NextConc ==
    \E w \in Workers :
        \/ \E i \in DOMAIN ConcJobs : Begin(w, i)
        \/ Acquire(w)
        \/ Drop(w)
        \/ Create(w)
        \/ Select(w)
        \/ Write(w)
        \/ Busy(w)
        \/ Commit(w)
        \/ Return(w)

SpecConc == Init /\ [][NextConc]_vars

\* Write, as far as the thread's position goes: its statements raise or
\* reach conn.commit()
WriteEnds(w) ==
    /\ pc[w] = "write"
    /\ dbWriter = None
    /\ \E label \in {"raised", "commit"} : Goto(w, label)

\* the statements of a request that is in service
Proceed(w) ==
    Drop(w) \/ Create(w) \/ Select(w) \/ WriteEnds(w) \/ Busy(w) \/ Commit(w) \/ Return(w)

\* The writers with their scheduling: a thread in service runs on to its
\* return (none of its statements waits for longer than the connection's
\* busy timeout), and a thread blocked in portalocker.lock, called without
\* a timeout and without LOCK_NB, is handed the lock by the operating system
\* at one of the moments it is free. Requests arrive as they please.
SpecConcLive ==
    /\ SpecConc
    /\ \A w \in Workers : WF_pc(Proceed(w)) /\ SF_pc(Acquire(w))

(***************************************************************************)
(* Login, card and magic-link requests of one browser                      *)
(***************************************************************************)
\* the instants the clock jumps to: the two max-ages, and one second past
\* the longer one
Times == {EMAIL_MAX_AGE, TOKEN_MAX_AGE_SECONDS, TOKEN_MAX_AGE_SECONDS + 1}

\* userinfo documents of the OAuth provider
OAuthUserinfos ==
    { Userinfo(eAvar, <<>>, <<>>, <<"C", "y", " ", "A", "n">>),
      Userinfo(eB, <<>>, <<>>, <<"B", "o">>) }

\* e-mail addresses typed into the magic-link form
FormEmails == {eAvar, eB}

\* the member lists an administrator has imported
Rosters == {<<RawRow(nAna, nBo, eA, dDMY, rMit)>>, <<RawRow(nBo, nCy, eB, dISO, <<>>)>>}

\* a request of the browser
Browse(op, arg) == lastReq' = Req(op, None, arg)

\* the token the browser presents: the link it holds, or a forgery of it
Presented(forged) == IF forged THEN Forged(issued.tok) ELSE issued.tok

\* at is the time the server handles the request
TokenArg(forged) == [link |-> issued, forged |-> forged, token |-> Presented(forged), at |-> now]

Tick ==
    /\ \E t \in Times : t > now /\ now' = t
    /\ UNCHANGED <<regVars, httpVars, issued, session, photos, uploaded, fileReads, concVars, app, heap>>

\* the user id the provider reports (preferred_username, username or sub)
ProviderUserId == <<"u", "1">>

\* /login/oauth followed by a successful /authorized callback
OAuthLogin(userinfo) ==
    /\ Browse("authorized", <<>>)
    /\ session' = [NoSession EXCEPT !.oauth_userinfo = userinfo, !.user_id = ProviderUserId]
    /\ resp' = Resp(302, "next_url")
    /\ UNCHANGED <<regVars, now, issued, photos, uploaded, fileReads, concVars, app, heap>>

\* a /logout that leaves the session as it is
Logout_KeepsSession ==
    /\ Browse("logout", <<>>)
    /\ resp' = Resp(302, "login_page")
    /\ UNCHANGED <<regVars, tokVars, concVars, app, heap>>

\* logout: logout_user() and session.clear()
Logout ==
    /\ Browse("logout", <<>>)
    /\ session' = NoSession
    /\ resp' = Resp(302, "login_page")
    /\ UNCHANGED <<regVars, now, issued, photos, uploaded, fileReads, concVars, app, heap>>

\* direct_member_card and qr_card: both sign the payload built from the session
CardPage(op) ==
    /\ Browse(op, <<>>)
    /\ IF SessionUserinfo(session).email = <<>>
       THEN /\ resp' = Resp(302, "login_page")
            /\ UNCHANGED issued
       ELSE LET user_data == build_user_data(session, tableExists, members)
                token == generate_token(user_data, now)
            IN /\ issued' = Link("card", user_data, token)
               /\ resp' = Resp(IF op = "qr_card" THEN 200 ELSE 302, token)
    /\ UNCHANGED <<regVars, now, session, photos, uploaded, fileReads, concVars, app, heap>>

\* a member_card that looks the subject up in the registry before it shows
\* the card
MemberCard_ChecksRegistry(forged) ==
    /\ issued.flow # "none"
    /\ Browse("member_card", TokenArg(forged))
    /\ LET user_data == decode_token(Presented(forged), now)
       IN resp' = IF user_data = PyNone THEN Resp(403, "expired.html")
                  ELSE IF ~({"user_id", "first_name", "last_name"} \subseteq DOMAIN user_data)
                  THEN Resp(500, "KeyError")
                  ELSE IF ~tableExists \/ Pseudonym(user_data.user_id.v) \notin DOMAIN members
                  THEN Resp(403, "expired.html")
                  ELSE Resp(200, [user_data |-> user_data,
                                  photo_exists |-> PhotoId(user_data.user_id.v) \in DOMAIN photos])
    /\ UNCHANGED <<regVars, tokVars, concVars, app, heap>>

\* member_card: /verify/<token>
MemberCard(forged) ==
    /\ issued.flow # "none"
    /\ Browse("member_card", TokenArg(forged))
    /\ LET user_data == decode_token(Presented(forged), now)
       IN resp' = IF user_data = PyNone THEN Resp(403, "expired.html")
                  ELSE IF ~({"user_id", "first_name", "last_name"} \subseteq DOMAIN user_data)
                  THEN Resp(500, "KeyError")
                  ELSE Resp(200, [user_data |-> user_data,
                                  photo_exists |-> PhotoId(user_data.user_id.v) \in DOMAIN photos])
    /\ UNCHANGED <<regVars, tokVars, concVars, app, heap>>

\* request_email_login: a member is mailed a magic link
RequestEmailLogin(form_email) ==
    /\ Browse("request_email_login", <<>>)
    /\ LET email == Lower(Strip(form_email))
           email_hash == HexDigest(email)
       IN IF ~tableExists
          THEN /\ resp' = Resp(500, "OperationalError")
               /\ UNCHANGED issued
          ELSE IF email_hash \notin DOMAIN members
          THEN /\ resp' = Resp(302, "email_sent")
               /\ UNCHANGED issued
          ELSE IF DecryptFailed \in {FernetDecrypt(FERNET_KEY, members[email_hash].first_name_enc),
                                     FernetDecrypt(FERNET_KEY, members[email_hash].last_name_enc)}
          THEN /\ resp' = Resp(500, "InvalidToken")
               /\ UNCHANGED issued
          ELSE /\ issued' = Link("email", PyStr(email), generate_email_token(email, now))
               /\ resp' = Resp(302, "email_sent")
    /\ UNCHANGED <<regVars, now, session, photos, uploaded, fileReads, concVars, app, heap>>

\* email_login: /email_login?token=...
EmailLogin(forged) ==
    /\ issued.flow # "none"
    /\ Browse("email_login", TokenArg(forged))
    /\ LET email == verify_email_token(Presented(forged), now)
       IN IF email = PyNone \/ email.v = <<>>
          THEN /\ resp' = Resp(302, "The link is invalid or has expired.")
               /\ UNCHANGED session
          ELSE IF ~tableExists
          THEN /\ resp' = Resp(500, "OperationalError")
               /\ UNCHANGED session
          ELSE IF HexDigest(email.v) \notin DOMAIN members
          THEN /\ resp' = Resp(302, "Email address is no longer valid.")
               /\ UNCHANGED session
          ELSE LET row == members[HexDigest(email.v)]
                   first_name == FernetDecrypt(FERNET_KEY, row.first_name_enc)
                   last_name == FernetDecrypt(FERNET_KEY, row.last_name_enc)
               IN IF DecryptFailed \in {first_name, last_name}
                  THEN /\ resp' = Resp(500, "InvalidToken")
                       /\ UNCHANGED session
                  ELSE /\ session' = [session EXCEPT !.email_userinfo =
                                          Userinfo(email.v, first_name, last_name, <<>>),
                                                      !.oauth_state = None,
                                                      !.user_id = email.v]
                       /\ resp' = Resp(302, "direct_member_card")
    /\ UNCHANGED <<regVars, now, issued, photos, uploaded, fileReads, concVars, app, heap>>

NextTok ==
    \/ Tick
    \/ \E rows \in Rosters : ImportCommit(Admin, rows)
    \/ \E h \in Hashes : MembersDelete(Admin, h)
    \/ \E userinfo \in OAuthUserinfos : OAuthLogin(userinfo)
    \/ Logout
    \/ \E op \in {"direct_member_card", "qr_card"} : CardPage(op)
    \/ \E forged \in BOOLEAN : MemberCard(forged)
    \/ \E form_email \in FormEmails : RequestEmailLogin(form_email)
    \/ \E forged \in BOOLEAN : EmailLogin(forged)

SpecTok == Init /\ [][NextTok]_vars

(***************************************************************************)
(* Logging in and out: /login, /logout, /login/oauth and /authorized       *)
(***************************************************************************)
\* values of os.urandom(16).hex()
OAuthStates == {"state-1", "state-2"}

\* a userinfo document that names nobody's e-mail
NamelessUserinfo == Userinfo(<<>>, <<>>, <<>>, <<"B", "o">>)

\* What the client library and the provider give a callback:
\* authorize_access_token() returns a token or None or raises, userinfo()
\* returns a document (NoUserinfo: an empty one), and the document names a
\* user id in preferred_username, username or sub, or in none of them.
OAuthAnswers ==
    [token : {"token", None, "raised"},
     userinfo : OAuthUserinfos \cup {NamelessUserinfo, NoUserinfo},
     user_id : {ProviderUserId, <<>>}]

\* login_page: GET /login
LoginPage ==
    /\ Browse("login_page", <<>>)
    /\ session' = NoSession
    /\ resp' = Resp(200, "login.html")
    /\ UNCHANGED <<regVars, now, issued, photos, uploaded, fileReads, concVars, app, heap>>

\* login_oauth: a logged-in user is logged out first; the state goes into
\* the session and to the provider
LoginOAuth(state) ==
    /\ Browse("login_oauth", <<>>)
    /\ session' = [(IF session.user_id # <<>> THEN NoSession ELSE session)
                      EXCEPT !.oauth_state = state]
    /\ resp' = Resp(302, state)
    /\ UNCHANGED <<regVars, now, issued, photos, uploaded, fileReads, concVars, app, heap>>

\* authorized: the callback. state_from_request is None for a request
\* without a state parameter, expected_state is None for a session without
\* oauth_state. lastReq keeps the answer of the token exchange when the
\* view went on to it.
Authorized(state_from_request, answer) ==
    LET expected_state == session.oauth_state
        popped == [session EXCEPT !.oauth_state = None]
        failed == Resp(400, "Authorization failed.")
    IN /\ Browse("authorized", [state |-> state_from_request,
                                answer |-> IF state_from_request # expected_state
                                           THEN <<>> ELSE <<answer>>])
       /\ IF state_from_request # expected_state
          THEN /\ session' = popped
               /\ resp' = failed
          ELSE IF answer.token # "token" \/ answer.userinfo = NoUserinfo
          THEN /\ session' = popped
               /\ resp' = failed
          ELSE IF answer.user_id = <<>>
          THEN /\ session' = [popped EXCEPT !.oauth_userinfo = answer.userinfo]
               /\ resp' = failed
          ELSE /\ session' = [popped EXCEPT !.oauth_userinfo = answer.userinfo,
                                            !.user_id = answer.user_id]
               /\ resp' = Resp(302, "next_url")
       /\ UNCHANGED <<regVars, now, issued, photos, uploaded, fileReads, concVars, app, heap>>

NextAuth ==
    \/ \E rows \in Rosters : ImportCommit(Admin, rows)
    \/ LoginPage
    \/ Logout
    \/ \E state \in OAuthStates : LoginOAuth(state)
    \/ \E state_from_request \in OAuthStates \cup {None}, answer \in OAuthAnswers :
          Authorized(state_from_request, answer)
    \/ \E form_email \in FormEmails : RequestEmailLogin(form_email)
    \/ \E forged \in BOOLEAN : EmailLogin(forged)
    \/ \E op \in {"direct_member_card", "qr_card"} : CardPage(op)

SpecAuth == Init /\ [][NextAuth]_vars

(***************************************************************************)
(* The photo vault: AES-CBC with PKCS7 padding, one file per photo_id      *)
(***************************************************************************)
\* padding.PKCS7(128): blocks of 16 bytes
BLOCK_SIZE == 16

\* a padder that adds nothing to data that already fills its blocks
Pad_OnlyPartialBlocks(data) ==
    IF Len(data) % BLOCK_SIZE = 0 THEN data
    ELSE LET n == BLOCK_SIZE - (Len(data) % BLOCK_SIZE)
         IN data \o [i \in 1..n |-> n]

\* padder.update(data) + padder.finalize(): n bytes of value n, 1 <= n <= 16
Pad(data) ==
    LET n == BLOCK_SIZE - (Len(data) % BLOCK_SIZE)
    IN data \o [i \in 1..n |-> n]

Unpadded(ok, data) == [ok |-> ok, data |-> data]

\* unpadder.update(padded) + unpadder.finalize(): raises on invalid padding
Unpad(padded) ==
    IF padded = <<>> \/ Len(padded) % BLOCK_SIZE # 0 THEN Unpadded(FALSE, <<>>)
    ELSE LET n == padded[Len(padded)]
         IN IF n \notin 1..BLOCK_SIZE \/ \E i \in (Len(padded) - n + 1)..Len(padded) : padded[i] # n
            THEN Unpadded(FALSE, <<>>)
            ELSE Unpadded(TRUE, SubSeq(padded, 1, Len(padded) - n))

\* key = sha256(email.strip().lower()).digest()
PhotoKey(email) == Sha256(Lower(Strip(email)))

AesCbcEncrypt(key, iv, padded) == [key |-> key, iv |-> iv, pt |-> padded]

\* decryption under another key or IV yields bytes without valid padding
AesCbcDecrypt(key, iv, ciphered) ==
    IF ciphered.key = key /\ ciphered.iv = iv THEN ciphered.pt ELSE <<>>

\* os.urandom(16)
IVs == {"iv-1", "iv-2"}

\* the file written by handle_photo_upload: the IV, then the ciphertext
EncFile(iv, ciphered) == [iv |-> iv, ciphered |-> ciphered]

\* request.files.get("photo"): no file chosen, an empty file, a binary file
PhotoForms ==
    { [filename |-> <<>>, data |-> <<>>],
      [filename |-> <<"p">>, data |-> <<>>],
      [filename |-> <<"p">>, data |-> <<255, 0>>] }

\* photo identifiers a client can put into the URL
PhotoIds == {PhotoId(eA), PhotoId(eB)}

PyEq(x, y) == x.t = y.t /\ (x.t = "None" \/ x.v = y.v)

Put(f, key, val) == [k \in DOMAIN f \cup {key} |-> IF k = key THEN val ELSE f[k]]

PhotoArg(forged, photo_id) ==
    [link |-> issued, forged |-> forged, token |-> Presented(forged), at |-> now,
     photo_id |-> photo_id]

\* upload_photo: the page carries a photo token for the session's subject
UploadPhoto ==
    /\ Browse("upload_photo", <<>>)
    /\ LET email == SessionUserinfo(session).email
           photo_id == PhotoId(email)
           user_data == [user_id |-> PyStr(email), photo_id |-> PyStr(photo_id)]
           photo_token == generate_token(user_data, now)
       IN IF email = <<>>
          THEN /\ resp' = Resp(400, "No email address found in your user profile.")
               /\ UNCHANGED issued
          ELSE /\ issued' = Link("photo", user_data, photo_token)
               /\ resp' = Resp(200, [photo_id |-> photo_id,
                                     photo_exists |-> photo_id \in DOMAIN photos,
                                     photo_token |-> photo_token])
    /\ UNCHANGED <<regVars, now, session, photos, uploaded, fileReads, concVars, app, heap>>

HandlePhotoUpload(file, iv) ==
    /\ Browse("handle_photo_upload", <<>>)
    /\ LET email == SessionUserinfo(session).email
           photo_id == PhotoId(email)
           key == PhotoKey(email)
           encrypted_data == EncFile(iv, AesCbcEncrypt(key, iv, Pad(file.data)))
       IN IF file.filename = <<>>
          THEN /\ resp' = Resp(302, "No file selected.")
               /\ UNCHANGED <<photos, uploaded>>
          ELSE IF email = <<>>
          THEN /\ resp' = Resp(400, "No email address found in your user profile.")
               /\ UNCHANGED <<photos, uploaded>>
          ELSE /\ photos' = Put(photos, photo_id, encrypted_data)
               /\ uploaded' = Put(uploaded, photo_id,
                                   [data |-> file.data,
                                    overwrote |-> /\ photo_id \in DOMAIN uploaded
                                                  /\ uploaded[photo_id].data # file.data])
               /\ resp' = Resp(302, "qr_card")
    /\ UNCHANGED <<regVars, now, issued, session, fileReads, concVars, app, heap>>

DeletePhoto ==
    /\ Browse("delete_photo", <<>>)
    /\ LET email == SessionUserinfo(session).email
           photo_id == PhotoId(email)
       IN IF email = <<>>
          THEN /\ resp' = Resp(400, "No email address found in your user profile.")
               /\ UNCHANGED <<photos, uploaded>>
          ELSE /\ photos' = Without(photos, photo_id)
               /\ uploaded' = Without(uploaded, photo_id)
               /\ resp' = Resp(302, "upload_photo")
    /\ UNCHANGED <<regVars, now, issued, session, fileReads, concVars, app, heap>>

\* a gate that looks at the token only
Refused_TokenOnly(user_data, photo_id) == user_data = PyNone

\* get_photo's "if not user_data or user_data.get('photo_id') != photo_id"
Refused(user_data, photo_id) ==
    user_data = PyNone \/ ~PyEq(Get(user_data, "photo_id"), PyStr(photo_id))

\* get_photo: /photo/<photo_id>?token=...
GetPhoto(forged, photo_id) ==
    /\ issued.flow # "none"
    /\ Browse("get_photo", PhotoArg(forged, photo_id))
    /\ LET user_data == decode_token(Presented(forged), now)
       IN IF Refused(user_data, photo_id)
          THEN /\ resp' = Resp(403, "Forbidden")
               /\ fileReads' = {}
          ELSE IF photo_id \notin DOMAIN photos
          THEN /\ resp' = Resp(404, "Not Found")
               /\ fileReads' = {}
          ELSE LET key == PhotoKey(user_data.user_id.v)
                   file == photos[photo_id]
                   decrypted == Unpad(AesCbcDecrypt(key, file.iv, file.ciphered))
               IN /\ fileReads' = {photo_id}
                  /\ resp' = IF decrypted.ok THEN Resp(200, decrypted.data)
                             ELSE Resp(500, "Internal Server Error")
    /\ UNCHANGED <<regVars, now, issued, session, photos, uploaded, concVars, app, heap>>

NextPhoto ==
    \/ Tick
    \/ \E userinfo \in OAuthUserinfos : OAuthLogin(userinfo)
    \/ Logout
    \/ \E op \in {"direct_member_card", "qr_card"} : CardPage(op)
    \/ UploadPhoto
    \/ \E file \in PhotoForms, iv \in IVs : HandlePhotoUpload(file, iv)
    \/ DeletePhoto
    \/ \E forged \in BOOLEAN, photo_id \in PhotoIds : GetPhoto(forged, photo_id)

SpecPhoto == Init /\ [][NextPhoto]_vars

(***************************************************************************)
(* Reading the registry: listing and editor, across restarts of the        *)
(* process without a configured Fernet key                                 *)
(***************************************************************************)
\* the key of a process that has ended
PreviousKey == "previous-fernet-key"

\* a ciphertext written by a process that has ended: only whether its key is
\* that of the running process matters, so the running process keeps the
\* name FERNET_KEY and the old ciphertexts take the name of a previous key
Outdated(ct) == IF ct = NULL THEN NULL ELSE [ct EXCEPT !.k = PreviousKey]

\* load_config without FERNET_KEY in the environment: Fernet.generate_key()
\* gives every start of the process a new key, the database file stays
Restart ==
    /\ tableExists
    /\ members' = [h \in DOMAIN members |->
                      [c \in DOMAIN members[h] |-> Outdated(members[h][c])]]
    /\ lastReq' = Req("restart", None, <<>>)
    /\ resp' = Resp(0, <<>>)
    /\ app' = create_app(Environment(SECRET_KEY, Unset))
    /\ UNCHANGED <<tableExists, origin, tokVars, concVars, heap>>

\* int(text) succeeds on decimal digits with surrounding blanks
IntOk(text) == AllDigits(Strip(text))

\* the editor's member of member_edit (GET): one try around the four
\* decryptions and the int() of the join year; join_year is shown as the
\* template prints the int
EditView(h, row) ==
    LET fn == FernetDecrypt(FERNET_KEY, row.first_name_enc)
        ln == FernetDecrypt(FERNET_KEY, row.last_name_enc)
        jy == IF row.join_year # NULL THEN FernetDecrypt(FERNET_KEY, row.join_year) ELSE <<>>
        ro == IF row.role # NULL THEN FernetDecrypt(FERNET_KEY, row.role) ELSE <<>>
        raised == \/ fn = DecryptFailed
                  \/ ln = DecryptFailed
                  \/ row.join_year # NULL /\ (jy = DecryptFailed \/ ~IntOk(jy))
                  \/ ro = DecryptFailed
    IN IF raised
       THEN [email_hash |-> h, firstname |-> MASK, lastname |-> MASK, join_year |-> <<>>, role |-> <<>>]
       ELSE [email_hash |-> h, firstname |-> fn, lastname |-> ln,
             join_year |-> IF row.join_year # NULL THEN Str(NumVal(Strip(jy))) ELSE <<>>,
             role |-> ro]

EditorArg(email_hash) == [email_hash |-> email_hash, method |-> "GET"]

\* member_edit, GET
MemberEditGet(user, email_hash) ==
    /\ Serve("member_edit", user, TRUE, EditorArg(email_hash))
    /\ UNCHANGED regVars
    /\ resp' = IF ~tableExists THEN Resp(500, "OperationalError")
               ELSE IF email_hash \notin DOMAIN members THEN Resp(404, "Not Found")
               ELSE Resp(200, EditView(email_hash, members[email_hash]))

\* the forms of the editor, one of them with a join year that is no number
ReadForms ==
    { EditForm(<<>>, nAna, nBo, <<"x">>, rMit, Pseudonym(eA)),
      EditForm(eB, nBo, nCy, <<" ", "0", "7">>, <<>>, NoHash),
      EditForm(<<>>, nCy, nAna, <<>>, <<>>, Pseudonym(eA)) }

NextRead ==
    \/ Restart
    \/ \E rows \in Rosters : ImportCommit(Admin, rows)
    \/ \E form \in ReadForms : MemberSave(Admin, form)
    \/ \E h \in Hashes : MembersDelete(Admin, h)
    \/ MembersList(Admin)
    \/ \E h \in Hashes : MemberEditGet(Admin, h)

SpecRead == Init /\ [][NextRead]_vars

(***************************************************************************)
(* Starting the process in environments that lack a secret                 *)
(***************************************************************************)
\* environments without a usable FERNET_KEY, with and without SECRET_KEY
Environments ==
    {Environment(secret_key, fernet_key) :
        secret_key \in {Unset, "", SECRET_KEY}, fernet_key \in {Unset, ""}}

\* python app.py / gunicorn wsgi:app: create_app runs before any request is
\* served. A process with a generated key cannot read what its predecessors
\* wrote; as in Restart, the running process keeps the name FERNET_KEY.
StartApp(env) ==
    /\ app' = create_app(env)
    /\ lastReq' = Req("create_app", None, env)
    /\ resp' = Resp(0, <<>>)
    /\ members' = IF create_app(env).running
                  THEN [h \in DOMAIN members |->
                           [c \in DOMAIN members[h] |-> Outdated(members[h][c])]]
                  ELSE members
    /\ UNCHANGED <<tableExists, origin, tokVars, concVars, heap>>

\* requests are served by a process whose create_app returned
NextStart ==
    \/ \E env \in Environments : StartApp(env)
    \/ \E rows \in Rosters : app.running /\ ImportCommit(Admin, rows)
    \/ \E form \in ReadForms : app.running /\ MemberSave(Admin, form)
    \/ app.running /\ MembersList(Admin)
    \/ \E h \in Hashes : app.running /\ MemberEditGet(Admin, h)

SpecStart == Init /\ [][NextStart]_vars

(***************************************************************************)
(* The registry and the photo vault side by side: an administrator changes *)
(* the roster while members upload, look at and delete their photos        *)
(***************************************************************************)
\* the editor's forms that carry no role: one names a new e-mail address, the
\* other the pseudonym of a record
LifeForms == {form \in ReadForms : form.role = <<>>}

\* the upload form without a file, and with a photo
LifePhotos == {file \in PhotoForms : file.filename = <<>> \/ file.data # <<>>}

NextLife ==
    \/ \E userinfo \in OAuthUserinfos : OAuthLogin(userinfo)
    \/ Logout
    \/ UploadPhoto
    \/ \E file \in LifePhotos : HandlePhotoUpload(file, "iv-1")
    \/ DeletePhoto
    \/ \E photo_id \in PhotoIds : GetPhoto(FALSE, photo_id)
    \/ \E rows \in Rosters : ImportCommit(Admin, rows)
    \/ \E rows \in Rosters : SyncCommit(Admin, <<Pseudonym(eB)>>, rows)
    \/ \E form \in LifeForms : MemberSave(Admin, form)
    \/ \E form \in LifeForms : MemberEdit(Admin, Pseudonym(eA), form)
    \/ \E h \in Hashes : MembersDelete(Admin, h)

SpecLife == Init /\ [][NextLife]_vars

(***************************************************************************)
(* The members table row by row: the statements of the five writers        *)
(***************************************************************************)
\* the four encrypted columns of a row, taken as one value
FieldValues == {"enc-1", "enc-2"}

TableRow(email_hash, fields) == [email_hash |-> email_hash, fields |-> fields]

\* the rows a batch may carry
TableRows == {TableRow(h, "enc-1") : h \in Hashes}

\* the rows of t that hold the key h
Keyed(t, h) == SelectSeq(t, LAMBDA r : r.email_hash = h)

\* a table whose email_hash column carries no uniqueness constraint
PrimaryKeyTaken_Undeclared(t, h) == FALSE

\* email_hash TEXT PRIMARY KEY: a row may not take a key that a row holds
PrimaryKeyTaken(t, h) == Keyed(t, h) # <<>>

\* INSERT INTO members ... VALUES (?, ?, ?, ?, ?)
SqlInsert(t, h, f) ==
    IF PrimaryKeyTaken(t, h)
    THEN [raised |-> TRUE, rows |-> t]
    ELSE [raised |-> FALSE, rows |-> Append(t, TableRow(h, f))]

\* UPDATE members SET first_name_enc = ?, ... WHERE email_hash = ?
SqlUpdate(t, h, f) ==
    [i \in DOMAIN t |-> IF t[i].email_hash = h THEN TableRow(h, f) ELSE t[i]]

\* UPDATE members SET email_hash = ?, ... WHERE email_hash = ?
SqlUpdateKey(t, email_hash, new_hash, f) ==
    IF /\ Keyed(t, email_hash) # <<>>
       /\ PrimaryKeyTaken(SelectSeq(t, LAMBDA r : r.email_hash # email_hash), new_hash)
    THEN [raised |-> TRUE, rows |-> t]
    ELSE [raised |-> FALSE,
          rows |-> [i \in DOMAIN t |-> IF t[i].email_hash = email_hash
                                       THEN TableRow(new_hash, f) ELSE t[i]]]

\* DELETE FROM members WHERE email_hash = ?
SqlDelete(t, h) == SelectSeq(t, LAMBDA r : r.email_hash # h)

\* the INSERT loop of a batch over batch[i..]; skip is upload_members'
\* "except sqlite3.IntegrityError", which the two commit functions lack
RECURSIVE SqlInsertLoop(_, _, _, _)
SqlInsertLoop(batch, i, t, skip) ==
    IF i > Len(batch) THEN [raised |-> FALSE, rows |-> t]
    ELSE LET r == SqlInsert(t, batch[i].email_hash, batch[i].fields)
         IN IF r.raised /\ ~skip THEN r
            ELSE SqlInsertLoop(batch, i + 1, r.rows, skip)

RECURSIVE SqlDeleteLoop(_, _, _)
SqlDeleteLoop(hashes, i, t) ==
    IF i > Len(hashes) THEN t ELSE SqlDeleteLoop(hashes, i + 1, SqlDelete(t, hashes[i]))

\* a request that changes nothing but the table
OnRows(op, arg, status) ==
    /\ lastReq' = Req(op, Admin, arg)
    /\ resp' = Resp(status, <<>>)
    /\ UNCHANGED <<regVars, tokVars, concVars, app>>

\* commit_members: DROP, CREATE, then the INSERTs as one transaction
ImportCommit_Rows(batch) ==
    LET r == SqlInsertLoop(batch, 1, <<>>, FALSE)
    IN /\ heap' = [heap EXCEPT !.exists = TRUE,
                               !.rows = IF r.raised THEN <<>> ELSE r.rows]
       /\ OnRows("import_commit", <<>>, IF r.raised THEN 500 ELSE 200)

\* upload_members: DROP, CREATE, then the INSERTs, a refused one skipped
UploadMembers_Rows(batch) ==
    /\ heap' = [heap EXCEPT !.exists = TRUE,
                            !.rows = SqlInsertLoop(batch, 1, <<>>, TRUE).rows]
    /\ OnRows("upload_members", <<>>, 200)

\* commit_sync: the DELETEs, then the INSERTs, one transaction
SyncCommit_Rows(to_delete_hashes, to_add) ==
    LET r == SqlInsertLoop(to_add, 1, SqlDeleteLoop(to_delete_hashes, 1, heap.rows), FALSE)
    IN /\ heap' = IF heap.exists /\ ~r.raised THEN [heap EXCEPT !.rows = r.rows] ELSE heap
       /\ OnRows("sync_commit", <<>>,
                 IF heap.exists /\ ~r.raised THEN 200 ELSE 500)

\* member_edit (POST): one UPDATE that may move the row to a new key
MemberEdit_Rows(email_hash, new_hash, f) ==
    LET r == SqlUpdateKey(heap.rows, email_hash, new_hash, f)
    IN /\ heap' = IF heap.exists /\ ~r.raised THEN [heap EXCEPT !.rows = r.rows] ELSE heap
       /\ OnRows("member_edit", <<TableRow(new_hash, f)>>,
                 IF heap.exists /\ ~r.raised THEN 200 ELSE 500)

\* members_delete: one DELETE
MembersDelete_Rows(email_hash) ==
    /\ heap' = IF heap.exists THEN [heap EXCEPT !.rows = SqlDelete(heap.rows, email_hash)]
               ELSE heap
    /\ OnRows("members_delete", <<email_hash>>, IF heap.exists THEN 200 ELSE 500)

\* member_save, first statement: SELECT COUNT(*) ... WHERE email_hash = ?
MemberSaveSelect_Rows(w, email_hash, f) ==
    /\ heap.find[w] = NoFind
    /\ heap.exists
    /\ heap' = [heap EXCEPT !.find[w] = <<[email_hash |-> email_hash,
                                           found |-> Keyed(heap.rows, email_hash) # <<>>,
                                           fields |-> f]>>]
    /\ UNCHANGED <<regVars, httpVars, tokVars, concVars, app>>

\* member_save, second statement: UPDATE if the SELECT found a row, else INSERT
MemberSaveWrite_Rows(w) ==
    /\ heap.find[w] # NoFind
    /\ LET q == heap.find[w][1]
           r == IF q.found
                THEN [raised |-> FALSE, rows |-> SqlUpdate(heap.rows, q.email_hash, q.fields)]
                ELSE SqlInsert(heap.rows, q.email_hash, q.fields)
       IN /\ heap' = [heap EXCEPT !.find[w] = NoFind, !.rows = r.rows]
          /\ OnRows("member_save", <<TableRow(q.email_hash, q.fields)>>,
                    IF r.raised THEN 500 ELSE 200)

NextRows ==
    \/ \E batch \in SeqsUpTo(TableRows, MaxBatch) : ImportCommit_Rows(batch)
    \/ \E batch \in SeqsUpTo(TableRows, MaxBatch) : UploadMembers_Rows(batch)
    \/ \E to_delete_hashes \in SeqsUpTo(Hashes, MaxDelete), to_add \in SeqsUpTo(TableRows, MaxAdd) :
          SyncCommit_Rows(to_delete_hashes, to_add)
    \/ \E email_hash, new_hash \in Hashes, f \in FieldValues :
          MemberEdit_Rows(email_hash, new_hash, f)
    \/ \E email_hash \in Hashes : MembersDelete_Rows(email_hash)
    \/ \E w \in Workers, email_hash \in Hashes, f \in FieldValues :
          MemberSaveSelect_Rows(w, email_hash, f)
    \/ \E w \in Workers : MemberSaveWrite_Rows(w)

SpecRows == Init /\ [][NextRows]_vars

\* the tables the writers leave behind: no key twice
Tables ==
    {t \in SeqsUpTo({TableRow(h, f) : h \in Hashes, f \in FieldValues}, Cardinality(Hashes)) :
        \A i, j \in DOMAIN t : t[i].email_hash = t[j].email_hash => i = j}

\* member_save alone, served by two threads, on any such table
InitUpsert ==
    /\ InitReg /\ InitHttp /\ InitTok /\ InitConc /\ InitApp
    /\ heap \in {[exists |-> TRUE, rows |-> t, find |-> [w \in Workers |-> NoFind]] : t \in Tables}

NextUpsert ==
    \/ \E w \in Workers, email_hash \in Hashes, f \in FieldValues :
          MemberSaveSelect_Rows(w, email_hash, f)
    \/ \E w \in Workers : MemberSaveWrite_Rows(w)

SpecUpsert == InitUpsert /\ [][NextUpsert]_vars

(***************************************************************************)
(* Ingestion: parse_csv and validate_rows on uploaded CSV files            *)
(***************************************************************************)
\* A CSV file is modelled as csv.reader yields it: a header line and data
\* lines, each a sequence of cells. The headers of the model's files are
\* ASCII and their capitals are among those LowerChar knows.
LowerLetters == {"a", "b", "c", "d", "e", "f", "g", "h", "i", "j", "k", "l", "m",
                 "n", "o", "p", "q", "r", "s", "t", "u", "v", "w", "x", "y", "z"}

\* normalize_header: strip, lower, keep [a-z0-9] only
normalize_header(header) ==
    SelectSeq(Lower(Strip(header)), LAMBDA c : c \in LowerLetters \cup DigitChars)

\* the canonical fields in the order of header_aliases
Canonical == <<"email", "firstname", "lastname", "joindate", "role">>

header_aliases ==
    [email |-> << <<"e", "m", "a", "i", "l">>,
                 <<"m", "a", "i", "l">>,
                 <<"e", "m", "a", "i", "l", "a", "d", "r", "e", "s", "s", "e">>,
                 <<"a", "d", "r", "e", "s", "s", "e">>,
                 <<"e", "-", "m", "a", "i", "l">> >>,
     firstname |-> << <<"v", "o", "r", "n", "a", "m", "e">>,
                 <<"f", "i", "r", "s", "t", "n", "a", "m", "e">>,
                 <<"f", "i", "r", "s", "t">>,
                 <<"f", "i", "r", "s", "t", "_", "n", "a", "m", "e">> >>,
     lastname |-> << <<"n", "a", "c", "h", "n", "a", "m", "e">>,
                 <<"l", "a", "s", "t", "n", "a", "m", "e">>,
                 <<"l", "a", "s", "t">>,
                 <<"l", "a", "s", "t", "_", "n", "a", "m", "e">> >>,
     joindate |-> << <<"e", "i", "n", "t", "r", "i", "t", "t">>,
                 <<"e", "i", "n", "t", "r", "i", "t", "t", "s", "d", "a", "t", "u", "m">>,
                 <<"b", "e", "i", "t", "r", "i", "t", "t">>,
                 <<"b", "e", "i", "t", "r", "i", "t", "t", "s", "d", "a", "t", "u", "m">>,
                 <<"j", "o", "i", "n">>,
                 <<"j", "o", "i", "n", "d", "a", "t", "e">> >>,
     role |-> << <<"r", "o", "l", "l", "e">>,
                 <<"r", "o", "l", "e">>,
                 <<"f", "u", "n", "k", "t", "i", "o", "n">>,
                 <<"p", "o", "s", "i", "t", "i", "o", "n">> >>]

\* normalized_map.get(norm): the last column whose normalized header is norm,
\* 0 when there is none
NormalizedIndex(headers, norm) ==
    LET cols == {i \in 1..Len(headers) : normalize_header(headers[i]) = norm}
    IN IF cols = {} THEN 0 ELSE CHOOSE i \in cols : \A j \in cols : j <= i

\* resolved.get(canonical): the column of the first variant found, else 0
RECURSIVE ResolveFrom(_, _, _)
ResolveFrom(headers, variants, k) ==
    IF k > Len(variants) THEN 0
    ELSE IF NormalizedIndex(headers, normalize_header(variants[k])) # 0
         THEN NormalizedIndex(headers, normalize_header(variants[k]))
         ELSE ResolveFrom(headers, variants, k + 1)

Resolved(headers, canonical) == ResolveFrom(headers, header_aliases[canonical], 1)

\* line[idx].strip() if idx < len(line) else "", "" for an unresolved key
\* (validate_rows reads every key with row.get(key, ""))
Cell(line, idx) == IF idx # 0 /\ idx <= Len(line) THEN Strip(line[idx]) ELSE <<>>

BlankLine(line) == \A i \in 1..Len(line) : Strip(line[i]) = <<>>

ParsedRow(headers, line) ==
    RawRow(Cell(line, Resolved(headers, "firstname")),
           Cell(line, Resolved(headers, "lastname")),
           Cell(line, Resolved(headers, "email")),
           Cell(line, Resolved(headers, "joindate")),
           Cell(line, Resolved(headers, "role")))

RECURSIVE ParsedRows(_, _, _)
ParsedRows(headers, lines, i) ==
    IF i > Len(lines) THEN <<>>
    ELSE IF BlankLine(lines[i]) THEN ParsedRows(headers, lines, i + 1)
    ELSE <<ParsedRow(headers, lines[i])>> \o ParsedRows(headers, lines, i + 1)

\* parse_csv of a file with a header line: ValueError naming the missing
\* mandatory fields, or the rows
parse_csv(file) ==
    LET missing == SelectSeq(<<"email", "firstname", "lastname">>,
                             LAMBDA key : Resolved(file.headers, key) = 0)
    IN IF missing # <<>>
       THEN [raised |-> TRUE, missing |-> missing, rows |-> <<>>]
       ELSE [raised |-> FALSE, missing |-> <<>>, rows |-> ParsedRows(file.headers, file.lines, 1)]

\* normalize of upload_members: strip, lower, drop "-" and "_"
UploadNormalize(s) == SelectSeq(Lower(Strip(s)), LAMBDA c : c \notin {"-", "_"})

candidates ==
    [email |-> { <<"e", "m", "a", "i", "l">>,
                 <<"e", "-", "m", "a", "i", "l">>,
                 <<"m", "a", "i", "l">>,
                 <<"e", "_", "m", "a", "i", "l">> },
     firstname |-> { <<"v", "o", "r", "n", "a", "m", "e">>,
                 <<"f", "i", "r", "s", "t", "n", "a", "m", "e">>,
                 <<"f", "i", "r", "s", "t", "_", "n", "a", "m", "e">> },
     lastname |-> { <<"n", "a", "c", "h", "n", "a", "m", "e">>,
                 <<"l", "a", "s", "t", "n", "a", "m", "e">>,
                 <<"l", "a", "s", "t", "_", "n", "a", "m", "e">> },
     joindate |-> { <<"e", "i", "n", "t", "r", "i", "t", "t">>,
                 <<"e", "i", "n", "t", "r", "i", "t", "t", "s", "d", "a", "t", "u", "m">>,
                 <<"b", "e", "i", "t", "r", "i", "t", "t">>,
                 <<"b", "e", "i", "t", "r", "i", "t", "t", "s", "d", "a", "t", "u", "m">>,
                 <<"j", "o", "i", "n", "d", "a", "t", "e">>,
                 <<"j", "o", "i", "n">> },
     role |-> { <<"r", "o", "l", "l", "e">>,
                 <<"r", "o", "l", "e">> }]

\* the columns whose header upload_members maps to key
UploadColumns(headers, key) ==
    {i \in 1..Len(headers) :
         \E variant \in candidates[key] : UploadNormalize(headers[i]) = UploadNormalize(variant)}

\* the fields upload_members can map; it raises ValueError at the first of
\* the five that it cannot
UploadMapped(headers) == {Canonical[k] : k \in {j \in 1..5 : UploadColumns(headers, Canonical[j]) # {}}}

UploadMissing(headers) ==
    SelectSeq(Canonical, LAMBDA key : key \notin UploadMapped(headers))

\* row.get(mapped_fields[key], ""): restval "" fills a short line
UploadCell(headers, line, key) ==
    LET idx == CHOOSE i \in UploadColumns(headers, key) : TRUE
    IN IF idx <= Len(line) THEN line[idx] ELSE <<>>

UploadRows(file) ==
    [i \in 1..Len(file.lines) |->
        RawRow(UploadCell(file.headers, file.lines[i], "firstname"),
               UploadCell(file.headers, file.lines[i], "lastname"),
               UploadCell(file.headers, file.lines[i], "email"),
               UploadCell(file.headers, file.lines[i], "joindate"),
               UploadCell(file.headers, file.lines[i], "role"))]

dSlash == <<"0", "3", "/", "0", "4", "/", "2", "0", "1", "9">>

\* a header line that names all five fields
FullHeaders ==
    <<<<"e", "-", "m", "a", "i", "l">>, <<"v", "o", "r", "n", "a", "m", "e">>, <<"N", "a", "c", "h", "n", "a", "m", "e">>, <<"e", "i", "n", "t", "r", "i", "t", "t">>, <<"r", "o", "l", "l", "e">>>>

\* header lines: all five fields; the three mandatory ones; no lastname;
\* only an e-mail column; English names with a blank and an underscore
CsvHeaders ==
    { FullHeaders,
      <<<<"m", "a", "i", "l">>, <<" ", "v", "o", "r", "n", "a", "m", "e", " ">>, <<"N", "a", "c", "h", "n", "a", "m", "e">>>>,
      <<<<"m", "a", "i", "l">>, <<"v", "o", "r", "n", "a", "m", "e">>>>,
      <<<<"n", "a", "m", "e">>, <<"A", "d", "r", "e", "s", "s", "e">>>>,
      <<<<"e", "m", "a", "i", "l">>, <<"f", "i", "r", "s", "t", " ", "n", "a", "m", "e">>, <<"l", "a", "s", "t", "_", "n", "a", "m", "e">>, <<"j", "o", "i", "n">>>> }

\* data lines, cells in the order e-mail, first name, last name, join date, role
CsvLines ==
    { <<eA, nAna, nBo, dDMY, rMit>>,
      <<eAvar, nCy, nAna>>,
      <<eBad, nAna, nBo>>,
      <<eB, nBo, nCy, dSlash>>,
      <<<<>>, <<>>, nBo, dBad>>,
      <<<<" ">>, <<>>>> }

MaxLines == 2     \* most data lines of an uploaded file

\* every header line with at most one data line, the full one with up to MaxLines
CsvFiles ==
    {[headers |-> h, lines |-> l] : h \in CsvHeaders, l \in SeqsUpTo(CsvLines, 1)}
    \cup {[headers |-> FullHeaders, lines |-> l] : l \in SeqsUpTo(CsvLines, MaxLines)}

\* the files sent to upload_members
UploadFiles == {file \in CsvFiles : Len(file.lines) <= 1}

\* parse_csv, validate_rows and the row loop of upload_members tabulated over
\* the files the model submits
IngestTable ==
    {[file |-> file,
      parsed |-> parse_csv(file),
      preview |-> validate_rows(parse_csv(file).rows)] : file \in CsvFiles}

Parsed(file) == (CHOOSE t \in IngestTable : t.file = file).parsed

Previewed(file) == (CHOOSE t \in IngestTable : t.file = file).preview

UploadTable ==
    {[file |-> file,
      missing |-> UploadMissing(file.headers),
      loop |-> IF UploadMissing(file.headers) # <<>>
               THEN [tbl |-> EmptyTable, org |-> EmptyTable, count |-> 0]
               ELSE UploadLoop(UploadRows(file), 1, EmptyTable, EmptyTable, 0)] : file \in UploadFiles}

Unmapped(file) == (CHOOSE t \in UploadTable : t.file = file).missing

Imported(file) == (CHOOSE t \in UploadTable : t.file = file).loop

IngestBody(error, missing, rows) == [error |-> error, missing |-> missing, rows |-> rows]

\* import_validate: parse_csv, validate_rows, the preview; the ValueError of
\* parse_csv is not caught
ImportValidateCsv(user, file) ==
    /\ Serve("import_validate", user, TRUE, file)
    /\ UNCHANGED regVars
    /\ resp' = IF Parsed(file).raised
               THEN Resp(500, IngestBody("CSV missing required fields", Parsed(file).missing, <<>>))
               ELSE Resp(200, IngestBody("", <<>>, Previewed(file)))

\* upload_members on a CSV file: the header mapping, then the bulk import
UploadMembersCsv(user, file) ==
    /\ Serve("upload_members", user, TRUE, file)
    /\ LET missing == Unmapped(file)
       IN IF missing # <<>>
          THEN /\ resp' = Resp(302, IngestBody("Required field missing in CSV", <<Head(missing)>>, <<>>))
               /\ UNCHANGED regVars
          ELSE /\ Wrote(TRUE, Imported(file).tbl, Imported(file).org)
               /\ resp' = Resp(302, IngestBody("", <<>>, <<>>))

NextIngest ==
    \/ \E file \in CsvFiles : ImportValidateCsv(Admin, file)
    \/ \E file \in UploadFiles : UploadMembersCsv(Admin, file)

SpecIngest == Init /\ [][NextIngest]_vars

(***************************************************************************)
(* Verification of whatever a client sends as its token: the link it       *)
(* holds, a forgery of it, a string that is no token, or nothing           *)
(***************************************************************************)
\* request.args.get("token") and request.form.get("token")
QueryKinds == {"held", "forged", "malformed", "missing"}

\* the <token> segment of /verify/<token> is a non-empty string
PathKinds == {"held", "forged", "malformed"}

\* the token parameter as the view receives it; kind tells the string that
\* is no token and the absent parameter (None) from a token
Wire(kind) ==
    [kind |-> kind,
     token |-> IF kind = "held" THEN issued.tok
               ELSE IF kind = "forged" THEN Forged(issued.tok)
               ELSE NoToken.tok]

Returned(raised, val) == [raised |-> raised, val |-> val]

\* decode_token(token): s.loads(None) fails inside the signer with TypeError
\* ("in" on None), which neither except clause catches; a string without
\* the signer's separators is a BadSignature
DecodeToken(wire, t) ==
    IF wire.kind = "missing" THEN Returned("TypeError", PyNone)
    ELSE IF wire.kind = "malformed" THEN Returned("", PyNone)
    ELSE Returned("", decode_token(wire.token, t))

\* verify_email_token(token): its last clause catches every Exception
VerifyEmailToken(wire, t) ==
    IF wire.kind \in {"missing", "malformed"} THEN Returned("", PyNone)
    ELSE Returned("", verify_email_token(wire.token, t))

\* [\w.-]
MailChar(c) == c \in LowerLetters \cup DigitChars \cup {"A", "B", "C", "N", "_", ".", "-"}

\* is_valid_email: ^[\w\.-]+@[\w\.-]+\.\w+$
is_valid_email(email) ==
    \E at \in Positions(email, "@") : \E dot \in Positions(email, ".") :
        /\ at > 1 /\ dot > at + 1 /\ dot < Len(email)
        /\ \A i \in 1..(dot - 1) : i # at => MailChar(email[i])
        /\ \A i \in (dot + 1)..Len(email) : MailChar(email[i]) /\ email[i] \notin {".", "-"}

\* recipients typed into the send form
Recipients == {<<>>, eBad, eB}

SentArg(kind, recipient) ==
    [link |-> issued, kind |-> kind, token |-> Wire(kind).token, at |-> now,
     recipient |-> recipient]

SentPhotoArg(kind, photo_id) ==
    [link |-> issued, kind |-> kind, token |-> Wire(kind).token, at |-> now,
     photo_id |-> photo_id]

\* a client can send the link it holds only if it holds one
Sendable(kind) == kind \in {"held", "forged"} => issued.flow # "none"

\* member_card: /verify/<token>
MemberCardPath(kind) ==
    /\ Sendable(kind)
    /\ Browse("member_card", SentArg(kind, <<>>))
    /\ LET decoded == DecodeToken(Wire(kind), now)
           user_data == decoded.val
       IN resp' = IF decoded.raised # "" THEN Resp(500, decoded.raised)
                  ELSE IF user_data = PyNone THEN Resp(403, "expired.html")
                  ELSE IF ~({"user_id", "first_name", "last_name"} \subseteq DOMAIN user_data)
                  THEN Resp(500, "KeyError")
                  ELSE Resp(200, [user_data |-> user_data,
                                  photo_exists |-> PhotoId(user_data.user_id.v) \in DOMAIN photos])
    /\ UNCHANGED <<regVars, tokVars, concVars, app, heap>>

\* get_photo: /photo/<photo_id>, with or without ?token=
GetPhotoQuery(kind, photo_id) ==
    /\ Sendable(kind)
    /\ Browse("get_photo", SentPhotoArg(kind, photo_id))
    /\ LET decoded == DecodeToken(Wire(kind), now)
           user_data == decoded.val
       IN IF decoded.raised # ""
          THEN /\ resp' = Resp(500, decoded.raised)
               /\ fileReads' = {}
          ELSE IF Refused(user_data, photo_id)
          THEN /\ resp' = Resp(403, "Forbidden")
               /\ fileReads' = {}
          ELSE IF photo_id \notin DOMAIN photos
          THEN /\ resp' = Resp(404, "Not Found")
               /\ fileReads' = {}
          ELSE LET key == PhotoKey(user_data.user_id.v)
                   file == photos[photo_id]
                   decrypted == Unpad(AesCbcDecrypt(key, file.iv, file.ciphered))
               IN /\ fileReads' = {photo_id}
                  /\ resp' = IF decrypted.ok THEN Resp(200, decrypted.data)
                             ELSE Resp(500, "Internal Server Error")
    /\ UNCHANGED <<regVars, now, issued, session, photos, uploaded, concVars, app, heap>>

\* send_email: the card is mailed to a recipient; success is what
\* send_membership_email returns
SendEmail(kind, recipient, success) ==
    /\ Sendable(kind)
    /\ Browse("send_email", SentArg(kind, recipient))
    /\ resp' = IF recipient = <<>> \/ kind = "missing"
               THEN Resp(302, "Fehler: Bitte alle Felder ausfuellen!")
               ELSE IF ~is_valid_email(recipient)
               THEN Resp(302, "Error: Ungueltige email Adresse.")
               ELSE IF DecodeToken(Wire(kind), now).val = PyNone
               THEN Resp(302, "Fehler: Der Ausweis ist abgelaufen oder ungueltig.")
               ELSE IF success
               THEN Resp(302, "Die email wurde erfolgreich versendet.")
               ELSE Resp(302, "Beim Versenden der email ist ein Fehler aufgetreten")
    /\ UNCHANGED <<regVars, tokVars, concVars, app, heap>>

\* email_login: /email_login, with or without ?token=
EmailLoginQuery(kind) ==
    /\ Sendable(kind)
    /\ Browse("email_login", SentArg(kind, <<>>))
    /\ LET email == VerifyEmailToken(Wire(kind), now).val
       IN IF email = PyNone \/ email.v = <<>>
          THEN /\ resp' = Resp(302, "The link is invalid or has expired.")
               /\ UNCHANGED session
          ELSE IF ~tableExists
          THEN /\ resp' = Resp(500, "OperationalError")
               /\ UNCHANGED session
          ELSE IF HexDigest(email.v) \notin DOMAIN members
          THEN /\ resp' = Resp(302, "Email address is no longer valid.")
               /\ UNCHANGED session
          ELSE LET row == members[HexDigest(email.v)]
                   first_name == FernetDecrypt(FERNET_KEY, row.first_name_enc)
                   last_name == FernetDecrypt(FERNET_KEY, row.last_name_enc)
               IN IF DecryptFailed \in {first_name, last_name}
                  THEN /\ resp' = Resp(500, "InvalidToken")
                       /\ UNCHANGED session
                  ELSE /\ session' = [session EXCEPT !.email_userinfo =
                                          Userinfo(email.v, first_name, last_name, <<>>),
                                                      !.oauth_state = None,
                                                      !.user_id = email.v]
                       /\ resp' = Resp(302, "direct_member_card")
    /\ UNCHANGED <<regVars, now, issued, photos, uploaded, fileReads, concVars, app, heap>>

NextVerify ==
    \/ Tick
    \/ \E rows \in Rosters : ImportCommit(Admin, rows)
    \/ \E userinfo \in OAuthUserinfos : OAuthLogin(userinfo)
    \/ \E op \in {"direct_member_card", "qr_card"} : CardPage(op)
    \/ UploadPhoto
    \/ \E form_email \in FormEmails : RequestEmailLogin(form_email)
    \/ \E kind \in PathKinds : MemberCardPath(kind)
    \/ \E kind \in QueryKinds, photo_id \in PhotoIds : GetPhotoQuery(kind, photo_id)
    \/ \E kind \in QueryKinds, recipient \in Recipients, success \in BOOLEAN :
           SendEmail(kind, recipient, success)
    \/ \E kind \in QueryKinds : EmailLoginQuery(kind)

SpecVerify == Init /\ [][NextVerify]_vars

(***************************************************************************)
(* Properties of the registry                                              *)
(***************************************************************************)
\* the join year as the listing shows it
YearText(row) == IF row.join_year = NoYear THEN <<>> ELSE Str(row.join_year)

ViewsOf(list, h) == {m \in list : m.email_hash = h}

RoundTrips(row, list) ==
    /\ Cardinality(ViewsOf(list, Pseudonym(row.email))) = 1
    /\ \A m \in ViewsOf(list, Pseudonym(row.email)) :
           /\ m.firstname = row.firstname
           /\ m.lastname = row.lastname
           /\ m.role = row.role
           /\ m.join_year = YearText(row)

BulkReplaced == lastReq.op = "import_commit" /\ resp.status = 302

\* C1: after a bulk replace of an error-free batch, the listing holds for every
\* row of the batch exactly one record under the row's pseudonym, and its
\* decrypted first name, last name, role and join year (decimal text, empty
\* when the row has none) are the row's values.
C1_BulkReplaceRoundTrip ==
    BulkReplaced =>
        LET staged == Validated[lastReq.arg]
        IN \A i \in 1..Len(staged) : RoundTrips(staged[i], members_list(members))

\* a two-row bulk replace, one row with padded names and neither year nor role,
\* the other with an ISO join date
C1_Witness ==
    /\ BulkReplaced
    /\ Len(lastReq.arg) = 2
    /\ \E m \in members_list(members) :
           m.firstname = <<"C", "y">> /\ m.join_year = <<>> /\ m.role = <<>>
    /\ \E m \in members_list(members) :
           m.firstname = <<"B", "o">> /\ m.join_year = <<"2", "0", "2", "0">>

Diffed == lastReq.op = "sync_validate" /\ resp.status = 200

CountIn(rows, h) == Cardinality({i \in 1..Len(rows) : Pseudonym(rows[i].email) = h})

\* C2: the diff is a total, disjoint partition: every stored pseudonym is in
\* exactly one of to_delete and existing, every error-free staged pseudonym in
\* exactly one of to_add and existing, and the three lists hold nothing else.
C2_DiffPartition ==
    Diffed =>
        LET d == resp.body
            staged == Validated[lastReq.arg]
            stagedHashes == CsvHashes(staged)
        IN /\ \A h \in DOMAIN members :
                  Cardinality(ViewsOf(d.to_delete, h)) + CountIn(d.existing, h) = 1
           /\ \A h \in stagedHashes :
                  CountIn(d.to_add, h) + CountIn(d.existing, h) = 1
           /\ \A m \in d.to_delete : m.email_hash \in DOMAIN members
           /\ \A i \in 1..Len(d.to_add) : Pseudonym(d.to_add[i].email) \in stagedHashes
           /\ \A i \in 1..Len(d.existing) : Pseudonym(d.existing[i].email) \in stagedHashes

\* a diff with something to delete, something to add and something to keep
C2_Witness ==
    /\ Diffed
    /\ resp.body.to_delete # {}
    /\ resp.body.to_add # <<>>
    /\ resp.body.existing # <<>>

\* C3: no stored record was inserted by bulk replace or by the sync commit
\* from a row whose validation error list was non-empty.
C3_NoErroneousRowCommitted == \A h \in DOMAIN origin : ~origin[h]

\* C5: every admin operation runs its body only for a user in ADMIN_EMAILS:
\* a request by any other user is answered 404 and leaves the store unchanged.
C5_NonAdminRefused ==
    [][lastReq'.user \notin ADMIN_EMAILS => resp'.status = 404 /\ UNCHANGED regVars]_vars

\* a worker is inside its write transaction: a bulk replace from its DROP to
\* its commit, any other writer from its first write statement to its commit
InWrite(w) ==
    \/ pc[w] = "commit"
    \/ pc[w] \in {"create", "write"} /\ Job(w).op \in Replacing

\* C4: every writer holds the advisory lock for the whole of its write
\* transaction, so no two writers are inside their write transaction at once.
C4_WritersSerialized ==
    /\ \A w \in Workers : InWrite(w) => advLock = w
    /\ \A w1, w2 \in Workers : w1 # w2 => ~(InWrite(w1) /\ InWrite(w2))

Elems(seq) == {seq[i] : i \in DOMAIN seq}

SyncCommitted == lastReq.op = "sync_commit" /\ resp.status = 302

\* C11: an INSERT of a pseudonym that is already present is skipped and the
\* batch goes on: a bulk replace or a sync commit on an existing table never
\* fails, it is answered with its preview (200) or its redirect (302).
C11_DuplicateInsertSkipped ==
    (lastReq.op \in {"import_commit", "sync_commit"} /\ tableExists) => resp.status \in {200, 302}

\* C14: a sync commit reports as deleted the number of listed pseudonyms that
\* were in the store, zero for an absent one, and every stored record whose
\* pseudonym is not listed is the same record afterwards.
C14_DeleteAbsentCountsZero ==
    [][(lastReq'.op = "sync_commit" /\ resp'.status = 302) =>
           LET listed == Elems(lastReq'.arg.delete)
           IN /\ resp'.body.deleted = Cardinality(listed \cap DOMAIN members)
              /\ \A h \in DOMAIN members \ listed :
                     h \in DOMAIN members' /\ members'[h] = members[h]]_vars

\* a sync commit that lists one absent pseudonym and nothing to add, on a
\* store that holds a record: nothing deleted, the record still there
C14_Witness ==
    /\ SyncCommitted
    /\ Len(lastReq.arg.delete) = 1 /\ lastReq.arg.add = <<>>
    /\ resp.body.deleted = 0
    /\ lastReq.arg.delete[1] \notin DOMAIN members
    /\ members # EmptyTable

\* C15: after a bulk replace the stored pseudonyms are exactly those of the
\* error-free rows of the batch, whatever the store held before, and the
\* reported count is the number of records in the store.
C15_BulkReplaceExactly ==
    BulkReplaced =>
        LET staged == Validated[lastReq.arg]
            kept == {i \in 1..Len(staged) : ~HasErrors(staged[i])}
        IN /\ DOMAIN members = {Pseudonym(staged[i].email) : i \in kept}
           /\ resp.body = Cardinality(DOMAIN members)

\* a bulk replace of a one-row batch: one record, and the other pseudonym the
\* model's requests can write is not in the store
C15_Witness ==
    /\ BulkReplaced
    /\ Len(lastReq.arg) = 1
    /\ Cardinality(DOMAIN members) = 1
    /\ resp.body = 1

\* the sync commit of this step posts the lists of the diff shown before it
CommitsTheDiff ==
    /\ Diffed
    /\ lastReq'.op = "sync_commit" /\ resp'.status = 302
    /\ Elems(lastReq'.arg.delete) = {m.email_hash : m \in resp.body.to_delete}
    /\ Len(lastReq'.arg.add) = Len(resp.body.to_add)
    /\ \A i \in 1..Len(resp.body.to_add) :
           Lower(Strip(lastReq'.arg.add[i].email)) = resp.body.to_add[i].email

\* C16: a sync commit run with the to_delete and to_add lists of a diff leaves
\* every record of the diff's existing bucket as it was stored, ciphertexts
\* included, whatever the staged row says.
C16_SyncLeavesMatches ==
    [][CommitsTheDiff =>
           \A i \in 1..Len(resp.body.existing) :
               LET h == Pseudonym(resp.body.existing[i].email)
               IN h \in DOMAIN members' /\ members'[h] = members[h]]_vars

\* a sync commit that added one record and deleted none, next to the record of
\* a@b.d that still carries the first name it was stored with
C16_Witness ==
    /\ SyncCommitted
    /\ resp.body.added = 1 /\ resp.body.deleted = 0
    /\ Pseudonym(eA) \in DOMAIN members
    /\ Pseudonym(eB) \in DOMAIN members
    /\ Pseudonym(lastReq.arg.add[1].email) = Pseudonym(eB)
    /\ MemberView(Pseudonym(eA), members[Pseudonym(eA)]).firstname = nAna

\* what reading one stored column gives by itself
FieldPlain(ct) == IF ct = NULL THEN <<>> ELSE FernetDecrypt(FERNET_KEY, ct)

\* view v shows every name and role column of row that decrypts by itself
ShowsWhatDecrypts(v, row) ==
    /\ FieldPlain(row.first_name_enc) # DecryptFailed => v.firstname = FieldPlain(row.first_name_enc)
    /\ FieldPlain(row.last_name_enc) # DecryptFailed => v.lastname = FieldPlain(row.last_name_enc)
    /\ FieldPlain(row.role) # DecryptFailed => v.role = FieldPlain(row.role)

Listed == lastReq.op = "members_list" /\ resp.status = 200

EditorShown ==
    /\ lastReq.op = "member_edit" /\ resp.status = 200
    /\ "method" \in DOMAIN lastReq.arg

\* C12: on read the fields are decrypted independently: in the listing and in
\* the editor every field of a record that can be read by itself is shown
\* with its decrypted value, whatever happens to the record's other fields.
C12_FieldsIndependent ==
    /\ Listed => \A m \in resp.body : ShowsWhatDecrypts(m, members[m.email_hash])
    /\ EditorShown => ShowsWhatDecrypts(resp.body, members[lastReq.arg.email_hash])

\* C13: the listing has exactly one entry, under its pseudonym, for every
\* stored record, whether or not the record's fields can be decrypted, and
\* the listing of an existing table never fails.
C13_ListingSurvivesDecryptFailure ==
    lastReq.op = "members_list" /\ tableExists =>
        /\ resp.status = 200
        /\ \A h \in DOMAIN members : Cardinality(ViewsOf(resp.body, h)) = 1
        /\ \A m \in resp.body : m.email_hash \in DOMAIN members

\* a listing of two records, one written before the restart and shown
\* masked, one written after it and shown in clear
C13_Witness ==
    /\ Listed
    /\ Cardinality(DOMAIN members) = 2
    /\ \E m \in resp.body :
           /\ FieldPlain(members[m.email_hash].first_name_enc) = DecryptFailed
           /\ m.firstname = MASK
    /\ \E m \in resp.body : m.firstname # MASK

(***************************************************************************)
(* Properties of ingestion                                                 *)
(***************************************************************************)
\* the preview of import_validate for a file that parse_csv accepted
Previewing == lastReq.op = "import_validate" /\ resp.status = 200

NormEmail(row) == Lower(Strip(row.email))

ErrMsgs(v) == {v.errors[k].msg : k \in DOMAIN v.errors}

RepeatsEarlier(rows, i) == \E j \in 1..(i - 1) : NormEmail(rows[j]) = NormEmail(rows[i])

\* C17: a row carries the duplicate-email error exactly when its trimmed,
\* lowercased e-mail equals that of an earlier row of the same batch; the
\* first occurrence is never marked, whatever the store holds.
C17_DuplicateIsBatchLocal ==
    Previewing =>
        LET rows == Parsed(lastReq.arg).rows
            out == resp.body.rows
        IN /\ Len(out) = Len(rows)
           /\ \A i \in 1..Len(rows) :
                  ("Doppelte E-Mail-Adresse" \in ErrMsgs(out[i])) <=> RepeatsEarlier(rows, i)

\* a two-row preview: the second row repeats the first one's e-mail in another
\* spelling and is marked; the first is not, although the store holds its
\* pseudonym
C17_Witness ==
    /\ Previewing
    /\ Len(resp.body.rows) = 2
    /\ LET rows == Parsed(lastReq.arg).rows
       IN /\ rows[1].email # rows[2].email
          /\ Pseudonym(rows[1].email) \in DOMAIN members
    /\ "Doppelte E-Mail-Adresse" \notin ErrMsgs(resp.body.rows[1])
    /\ "Doppelte E-Mail-Adresse" \in ErrMsgs(resp.body.rows[2])

\* the messages of the rules row i violates
ViolatedRules(rows, i) ==
    LET joindate == Strip(rows[i].joindate)
    IN {m \in {"Vorname fehlt"} : Strip(rows[i].firstname) = <<>>}
       \cup {m \in {"Nachname fehlt"} : Strip(rows[i].lastname) = <<>>}
       \cup {m \in {"Ungueltige E-Mail-Adresse"} : NormEmail(rows[i]) = <<>> \/ ~EMAIL_RE(NormEmail(rows[i]))}
       \cup {m \in {"Doppelte E-Mail-Adresse"} : RepeatsEarlier(rows, i)}
       \cup {m \in {"Eintrittsdatum ungueltig"} :
                 joindate # <<>> /\ StrptimeDMY(joindate) = NoYear /\ StrptimeISO(joindate) = NoYear}

\* C18: validate_rows returns one row per input row, in input order, and the
\* error list of a row holds one error for each rule the row violates and
\* nothing else.
C18_AllRulesAccumulate ==
    Previewing =>
        LET rows == Parsed(lastReq.arg).rows
            out == resp.body.rows
        IN /\ Len(out) = Len(rows)
           /\ \A i \in 1..Len(rows) :
                  /\ out[i].rownum = i + 1
                  /\ out[i].email = NormEmail(rows[i])
                  /\ out[i].firstname = Strip(rows[i].firstname)
                  /\ out[i].lastname = Strip(rows[i].lastname)
                  /\ ErrMsgs(out[i]) = ViolatedRules(rows, i)
                  /\ Len(out[i].errors) = Cardinality(ViolatedRules(rows, i))

\* a preview with a row whose only error is the malformed e-mail and a row
\* with three errors or more
C18_Witness ==
    /\ Previewing
    /\ \E i \in DOMAIN resp.body.rows :
           ErrMsgs(resp.body.rows[i]) = {"Ungueltige E-Mail-Adresse"}
    /\ \E i \in DOMAIN resp.body.rows : Len(resp.body.rows[i].errors) >= 3

\* C19: the validator takes the join year from the first of day.month.year,
\* ISO and the lenient day-first parser that accepts the text, and reports a
\* join-date error only when all three reject it.
C19_LenientDateFallback ==
    Previewing =>
        LET rows == Parsed(lastReq.arg).rows
            out == resp.body.rows
        IN \A i \in 1..Len(out) :
               LET joindate == Strip(rows[i].joindate)
               IN /\ out[i].join_year = UploadJoinYear(joindate)
                  /\ ("Eintrittsdatum ungueltig" \in ErrMsgs(out[i]))
                         <=> (joindate # <<>> /\ UploadJoinYear(joindate) = NoYear)

\* the mandatory fields no header of the file resolves to
Unresolvable(file) ==
    {key \in {"email", "firstname", "lastname"} : Resolved(file.headers, key) = 0}

\* C20: ingestion of a file fails with a structural error exactly when a
\* mandatory field cannot be resolved from its headers, and the error names
\* every missing field; a file without join-date or role column is ingested.
C20_StructuralErrorIffMandatoryMissing ==
    lastReq.op \in {"import_validate", "upload_members"} =>
        /\ (resp.body.error # "") <=> (Unresolvable(lastReq.arg) # {})
        /\ Unresolvable(lastReq.arg) # {} => Elems(resp.body.missing) = Unresolvable(lastReq.arg)

(***************************************************************************)
(* Properties of the token service                                         *)
(***************************************************************************)
\* the link was signed by generate_token
FromGenerateToken(link) == link.flow \in {"card", "photo"}

\* the last request presented, unaltered, a link of one of the flows
PresentedTo(op, flows) ==
    lastReq.op = op /\ ~lastReq.arg.forged /\ lastReq.arg.link.flow \in flows

AgeAtRequest == lastReq.arg.at - lastReq.arg.token.ts

\* C6: a token made by generate_token decodes to the payload it was made
\* from while its age does not exceed TOKEN_MAX_AGE_SECONDS, and the same
\* token decodes to None once its age exceeds it; member_card answers
\* accordingly with the card or with 403.
C6_TokenMaxAge ==
    /\ FromGenerateToken(issued) =>
           decode_token(issued.tok, now) =
               IF now - issued.tok.ts <= TOKEN_MAX_AGE_SECONDS THEN issued.data ELSE PyNone
    /\ PresentedTo("member_card", {"card"}) =>
           IF AgeAtRequest <= TOKEN_MAX_AGE_SECONDS
           THEN resp.status = 200 /\ resp.body.user_data = lastReq.arg.link.data
           ELSE resp.status = 403

\* a card token carrying a join year from the registry, refused one second
\* past the max-age
C6_Witness ==
    /\ PresentedTo("member_card", {"card"})
    /\ AgeAtRequest = TOKEN_MAX_AGE_SECONDS + 1
    /\ lastReq.arg.link.data.join_year # PyNone
    /\ resp.status = 403

\* C7: a magic-link token is never accepted by decode_token and a token made
\* by generate_token is never accepted by verify_email_token, at any time,
\* although both serializers sign with the same secret.
C7_DomainSeparation ==
    /\ EnvSecret = SECRET_KEY
    /\ issued.flow = "email" => decode_token(issued.tok, now) = PyNone
    /\ FromGenerateToken(issued) => verify_email_token(issued.tok, now) = PyNone
    /\ PresentedTo("member_card", {"email"}) => resp.status = 403
    /\ PresentedTo("email_login", {"card", "photo"}) =>
           resp.status = 302 /\ resp.body = "The link is invalid or has expired."

\* a magic link still inside its own 900 seconds, refused as a card token
C7_Witness ==
    /\ PresentedTo("member_card", {"email"})
    /\ AgeAtRequest <= EMAIL_MAX_AGE
    /\ resp.status = 403

\* email_login has just opened a session
LoggedInByLink == lastReq.op = "email_login" /\ resp.body = "direct_member_card"

\* the request presented, unaltered, a token of generate_email_token not
\* older than the window, for an e-mail whose pseudonym is in the registry
LoginGrounds ==
    /\ ~lastReq.arg.forged
    /\ lastReq.arg.link.flow = "email"
    /\ lastReq.arg.at - lastReq.arg.token.ts <= EMAIL_MAX_AGE
    /\ tableExists
    /\ HexDigest(lastReq.arg.link.data.v) \in DOMAIN members

\* C23: email_login opens a session only for an unaltered token of
\* generate_email_token whose age is at most 900 seconds and whose e-mail has
\* its pseudonym in the registry when the link is used; no other step puts
\* an email_userinfo into the session.
C23_MagicLinkLoginGrounds ==
    [][ (\/ LoggedInByLink'
         \/ session'.email_userinfo \notin {session.email_userinfo, NoUserinfo})
        => (lastReq'.op = "email_login" /\ LoginGrounds') ]_vars

\* a login with a link used at the last second of its window
C23_Witness ==
    /\ LoggedInByLink
    /\ AgeAtRequest = EMAIL_MAX_AGE
    /\ session.email_userinfo.email = lastReq.arg.link.data.v

\* C24: after email_login has accepted a token, the next request that
\* presents the same token to email_login is rejected.
C24_MagicLinkSingleUse ==
    [][ (/\ LoggedInByLink
         /\ lastReq'.op = "email_login"
         /\ lastReq'.arg.token = lastReq.arg.token)
        => resp'.body # "direct_member_card" ]_vars

\* the registry record of the session's member, looked up by the pseudonym
\* of its e-mail
OwnRecord == members[Pseudonym(SessionUserinfo(session).email)]

\* a nullable column as the card shows it
Shown(ct, absent) == IF ct = NULL THEN absent ELSE PyStr(FernetDecrypt(FERNET_KEY, ct))

\* C27: the card pages look the member up under the pseudonym of the
\* lowercased, trimmed e-mail: when the registry holds the record of the
\* session's e-mail, in whatever case and with whatever blanks the session
\* spells it, the card carries that record's role and join year.
C27_LookupNormalizesEmail ==
    (/\ lastReq.op \in {"direct_member_card", "qr_card"}
     /\ SessionUserinfo(session).email # <<>>
     /\ tableExists
     /\ Pseudonym(SessionUserinfo(session).email) \in DOMAIN members)
    => /\ issued.data.role = Shown(OwnRecord.role, PyStr(<<>>))
       /\ issued.data.join_year = Shown(OwnRecord.join_year, PyNone)

(***************************************************************************)
(* Properties of the photo vault                                           *)
(***************************************************************************)
\* bytes.fromhex of the 64 characters of a hexdigest: the digest
FromHex(hexdigest) == hexdigest.hex

\* e-mail addresses of members
MemberEmails == {eA, eAvar, eB}

\* C26: the key a stored photo is encrypted under is not the pseudonym of a
\* member's e-mail in any encoding: knowing the pseudonym does not give the
\* key.
C26_PhotoKeyApartFromPseudonym ==
    \A photo_id \in DOMAIN photos : \A email \in MemberEmails :
        photos[photo_id].ciphered.key # FromHex(Pseudonym(email))

\* the subject's photo identifier, from the e-mail the link was made for
SubjectPhotoId(link) == PhotoId(link.data.user_id.v)

Unexpired == AgeAtRequest <= TOKEN_MAX_AGE_SECONDS

\* C8 as stated: a token issued by the card flow (direct_member_card,
\* qr_card) is rejected by the photo verifier get_photo.
C8_CardTokenRefusedByGetPhoto ==
    PresentedTo("get_photo", {"card"}) => resp.status = 403

\* C8 amended: card and photo tokens are signed under one salt and only the
\* magic-link salt differs; get_photo accepts a card-flow token exactly
\* while it is unexpired and for the photo identifier of its own subject.
C8_CardTokenOpensOwnPhoto ==
    /\ TOKEN_SALT # EMAIL_SALT
    /\ PresentedTo("get_photo", {"card"}) =>
           (resp.status # 403 <=>
               Unexpired /\ lastReq.arg.photo_id = SubjectPhotoId(lastReq.arg.link))

\* a card-flow token that fetched its subject's photo
C8_Witness ==
    /\ PresentedTo("get_photo", {"card"})
    /\ resp.status = 200

\* C9: get_photo returns photo bytes only for a valid, unexpired token whose
\* photo_id is the one in the URL; a valid token for another identifier is
\* answered 403, and a refused request opens no photo file.
C9_PhotoIdBound ==
    lastReq.op = "get_photo" =>
        /\ resp.status = 200 =>
               /\ ~lastReq.arg.forged
               /\ FromGenerateToken(lastReq.arg.link)
               /\ Unexpired
               /\ PyEq(Get(lastReq.arg.link.data, "photo_id"), PyStr(lastReq.arg.photo_id))
        /\ (/\ PresentedTo("get_photo", {"card", "photo"})
            /\ Unexpired
            /\ lastReq.arg.photo_id # SubjectPhotoId(lastReq.arg.link)) =>
               resp.status = 403
        /\ resp.status = 403 => fileReads = {}

\* a fresh photo token of one subject, presented for the stored photo of
\* another subject
C9_Witness ==
    /\ PresentedTo("get_photo", {"photo"})
    /\ Unexpired
    /\ lastReq.arg.photo_id # SubjectPhotoId(lastReq.arg.link)
    /\ lastReq.arg.photo_id \in DOMAIN photos
    /\ resp.status = 403
    /\ fileReads = {}

\* C10: a read with a valid photo token of a subject, for that subject's
\* identifier, returns exactly the bytes of the subject's latest upload.
C10_PhotoRoundTrip ==
    (/\ PresentedTo("get_photo", {"photo"})
     /\ Unexpired
     /\ lastReq.arg.photo_id = SubjectPhotoId(lastReq.arg.link)
     /\ lastReq.arg.photo_id \in DOMAIN uploaded) =>
        /\ resp.status = 200
        /\ resp.body = uploaded[lastReq.arg.photo_id].data

\* the empty file read back after it replaced a binary upload
C10_Witness ==
    /\ PresentedTo("get_photo", {"photo"})
    /\ lastReq.arg.photo_id \in DOMAIN uploaded
    /\ uploaded[lastReq.arg.photo_id].overwrote
    /\ resp.status = 200
    /\ resp.body = <<>>

(***************************************************************************)
(* Properties of verification                                              *)
(***************************************************************************)
Verifiers == {"member_card", "get_photo", "send_email", "email_login"}

\* the request sent a copy of the held token whose signature does not verify
BadlySigned == lastReq.arg.kind = "forged"

\* the request sent a token of generate_token, unaltered, past its max-age
Expired ==
    /\ lastReq.arg.kind = "held"
    /\ lastReq.arg.link.flow \in {"card", "photo"}
    /\ lastReq.arg.at - lastReq.arg.token.ts > TOKEN_MAX_AGE_SECONDS

\* what a view answers when decode_token gives None, from the rest of the
\* request alone
Refusal(req) ==
    IF req.op = "member_card" THEN Resp(403, "expired.html")
    ELSE IF req.op = "get_photo" THEN Resp(403, "Forbidden")
    ELSE IF req.arg.recipient = <<>> THEN Resp(302, "Fehler: Bitte alle Felder ausfuellen!")
    ELSE IF ~is_valid_email(req.arg.recipient) THEN Resp(302, "Error: Ungueltige email Adresse.")
    ELSE Resp(302, "Fehler: Der Ausweis ist abgelaufen oder ungueltig.")

\* C21: an expired token and a badly signed one are answered alike:
\* decode_token gives None for both, and member_card, get_photo and
\* send_email give the response that depends on nothing but the rest of the
\* request.
C21_NoExpiryOracle ==
    (lastReq.op \in {"member_card", "get_photo", "send_email"} /\ (BadlySigned \/ Expired)) =>
        /\ decode_token(lastReq.arg.token, lastReq.arg.at) = PyNone
        /\ resp = Refusal(lastReq)
        /\ lastReq.op = "get_photo" => fileReads = {}

\* the subject's own photo requested with the subject's own token, expired
C21_Witness ==
    /\ lastReq.op = "get_photo"
    /\ Expired
    /\ PyStr(lastReq.arg.photo_id) = Get(lastReq.arg.link.data, "photo_id")
    /\ resp.status = 403

\* C22: a request whose token argument is absent, is no token at all or is
\* badly signed is never answered by an error of the server: decode_token
\* and verify_email_token return None and do not raise.
C22_VerificationTotal ==
    (lastReq.op \in Verifiers /\ lastReq.arg.kind \in {"missing", "malformed", "forged"}) =>
        resp.status # 500

(***************************************************************************)
(* Properties of the start of the process                                  *)
(***************************************************************************)
\* C25: a process runs only if its environment holds a signing secret and a
\* registry encryption secret: without SECRET_KEY or FERNET_KEY, or with an
\* empty one, create_app fails, so that nothing is signed with a default or
\* empty secret and nothing is encrypted with a generated key.
C25_MissingSecretIsFatal ==
    app.running =>
        /\ app.env.SECRET_KEY \notin {Unset, ""}
        /\ app.env.FERNET_KEY \notin {Unset, ""}
        /\ app.config.SECRET_KEY = app.env.SECRET_KEY
        /\ app.config.FERNET_KEY = app.env.FERNET_KEY

C29_SyncCommitAtomic ==
    [][\A w \in Workers :
          (Job(w).op = "sync_commit" /\ pc'[w] # pc[w] /\ pc[w] # "commit")
              => UNCHANGED regVars]_vars

\* a sync commit has raised at its INSERT of a pseudonym that is present,
\* after its DELETE of a record that was present: both are in the store
C29_Witness ==
    \E w \in Workers :
        /\ Job(w).op = "sync_commit" /\ pc[w] = "raised" /\ advLock = w
        /\ tableExists
        /\ \A i \in DOMAIN Job(w).arg.delete : Job(w).arg.delete[i] \in DOMAIN members
        /\ \E i \in DOMAIN Job(w).arg.add :
               HexDigest(Lower(Strip(Job(w).arg.add[i].email))) \in DOMAIN members
        /\ \A v \in Workers \ {w} : pc[v] = "idle"

\* C30: a bulk replace that was given rows and found records in the store
\* does not leave the store without any record: either it failed and the
\* prior records are still there, or the store holds records of the new
\* roster. Stated for the CSV upload, whose rows can fail one by one.
C30_BulkReplaceAtomic ==
    [][(/\ lastReq'.op = "upload_members"
        /\ lastReq'.arg.lines # <<>>
        /\ tableExists /\ members # EmptyTable)
           => (tableExists' /\ members' # EmptyTable)]_vars

(***************************************************************************)
(* Properties of sessions and lifecycles                                   *)
(***************************************************************************)
\* C31: whether member_card accepts a card token depends on the token and on
\* the time since it was signed, and on nothing else: an unaltered token is
\* shown with the payload it was made from exactly while it is not older than
\* TOKEN_MAX_AGE_SECONDS, whatever happened to the session of its user or to
\* the member's record since it was issued.
C31_CardTokenStateless ==
    (lastReq.op = "member_card" /\ lastReq.arg.link.flow = "card") =>
        /\ resp.status = 200 <=> (~lastReq.arg.forged /\ Unexpired)
        /\ resp.status = 200 => resp.body.user_data = lastReq.arg.link.data

\* a card issued to a member with a join year in the registry is shown
\* after the user logged out and the member's record is gone
C31_Witness ==
    /\ PresentedTo("member_card", {"card"})
    /\ resp.status = 200
    /\ lastReq.arg.link.data.join_year # PyNone
    /\ session = NoSession
    /\ tableExists
    /\ Pseudonym(lastReq.arg.link.data.user_id.v) \notin DOMAIN members

\* the views that write the registry
RegistryOps == {"import_commit", "sync_commit", "member_save", "member_edit", "members_delete"}

\* the photo file of the session's user
OwnPhoto == PhotoId(SessionUserinfo(session).email)

\* C32: the photo files and the member records live apart. A step that
\* changes the photo files is an upload or a delete_photo of a logged-in
\* user and touches that user's file only: an upload leaves it in place, a
\* delete_photo removes it; no view of the registry changes a photo file and
\* no photo view changes the registry.
C32_PhotoLifecycleApart ==
    [][/\ photos' # photos =>
             /\ lastReq'.op \in {"handle_photo_upload", "delete_photo"}
             /\ SessionUserinfo(session).email # <<>>
             /\ \A id \in (DOMAIN photos \cup DOMAIN photos') \ {OwnPhoto} :
                    id \in DOMAIN photos /\ id \in DOMAIN photos' /\ photos'[id] = photos[id]
       /\ regVars' # regVars => lastReq'.op \in RegistryOps
       /\ (lastReq'.op = "handle_photo_upload" /\ resp'.status = 302 /\ resp'.body = "qr_card")
              => OwnPhoto \in DOMAIN photos'
       /\ (lastReq'.op = "delete_photo" /\ resp'.status = 302) => OwnPhoto \notin DOMAIN photos'
      ]_vars

\* an administrator has deleted a member's record; the photo that member
\* uploaded is still in the vault
C32_Witness ==
    /\ lastReq.op = "members_delete" /\ resp.status = 200
    /\ \E e \in MemberEmails :
           /\ lastReq.arg = Pseudonym(e)
           /\ Pseudonym(e) \notin DOMAIN members
           /\ PhotoId(e) \in DOMAIN photos

\* C33: whatever bulk replaces, incremental syncs, upserts, edits with an
\* e-mail change and deletes have run, in whatever interleaving, no two rows
\* of the members table hold the same pseudonym.
C33_OneRecordPerPseudonym ==
    \A i, j \in DOMAIN heap.rows :
        heap.rows[i].email_hash = heap.rows[j].email_hash => i = j

\* two upserts of one absent pseudonym raced: the second INSERT was refused
C33_Witness ==
    /\ lastReq.op = "member_save"
    /\ resp.status = 500
    /\ Len(Keyed(heap.rows, lastReq.arg[1].email_hash)) = 1
    /\ Len(heap.rows) = 2

\* C34: a member_save that has written did not fail, left exactly one row
\* with its pseudonym, carrying the submitted fields, and left the rows of
\* every other pseudonym as they were; also when another member_save ran
\* between its SELECT and its write.
C34_UpsertByPseudonym ==
    [][\A w \in Workers :
         (heap.find[w] # NoFind /\ heap'.find[w] = NoFind) =>
             LET q == heap.find[w][1]
             IN /\ resp'.status = 200
                /\ Keyed(heap'.rows, q.email_hash) = <<TableRow(q.email_hash, q.fields)>>
                /\ \A h \in Hashes \ {q.email_hash} :
                      Keyed(heap'.rows, h) = Keyed(heap.rows, h)]_vars

\* C35: a sync commit runs its deletes before its inserts: a pseudonym that
\* is listed for deletion and is the pseudonym of an added row is in the store
\* afterwards, with the fields of the added row; the reported deleted count is
\* the number of records the deletes removed and the reported added count the
\* number of rows inserted.
C35_DeletesBeforeInserts ==
    [][(lastReq'.op = "sync_commit" /\ resp'.status = 302) =>
           LET listed == Elems(lastReq'.arg.delete)
               to_add == Validated[lastReq'.arg.add]
               kept == DOMAIN members \ listed
           IN /\ \A i \in 1..Len(to_add) :
                     LET h == Pseudonym(to_add[i].email)
                     IN h \in listed =>
                            /\ h \in DOMAIN members'
                            /\ members'[h] = EncryptRow(to_add[i])
              /\ resp'.body.deleted = Cardinality(DOMAIN members \cap listed)
              /\ resp'.body.added = Len(to_add)
              /\ resp'.body.added = Cardinality(DOMAIN members' \ kept)]_vars

\* a record was deleted and inserted again, from the added row, by one commit
C35_Witness ==
    /\ SyncCommitted
    /\ resp.body.deleted = 1
    /\ resp.body.added = 1
    /\ Pseudonym(lastReq.arg.add[1].email) \in Elems(lastReq.arg.delete)
    /\ members[Pseudonym(lastReq.arg.add[1].email)] = EncryptRow(Validated[lastReq.arg.add][1])

\* the elements of a finite set in some order
SeqOf(S) == CHOOSE q \in [1..Cardinality(S) -> S] : Elems(q) = S

\* commit_sync called with the lists of the diff d
CommitOfDiff(d, tbl, org) ==
    commit_sync(SeqOf({m.email_hash : m \in d.to_delete}), d.to_add, tbl, org)

\* C36: reconciliation converges. On the store a diff was computed on,
\* commit_sync with that diff's to_delete and to_add lists does not fail and
\* leaves exactly the pseudonyms of the error-free staged rows, and the diff of
\* the same batch against the result has nothing to delete and nothing to add;
\* and a sync_commit request that posts those lists right after the diff
\* leaves that store.
C36_ReconciliationConverges ==
    /\ [](Diffed =>
            LET staged == Validated[lastReq.arg]
                r == CommitOfDiff(resp.body, members, origin)
                again == sync_members(staged, r.tbl)
            IN /\ ~r.raised
               /\ DOMAIN r.tbl = CsvHashes(staged)
               /\ again.to_delete = {}
               /\ again.to_add = <<>>)
    /\ [][CommitsTheDiff =>
             LET staged == Validated[lastReq.arg]
                 again == sync_members(staged, members')
             IN /\ DOMAIN members' = DOMAIN CommitOfDiff(resp.body, members, origin).tbl
                /\ DOMAIN members' = CsvHashes(staged)
                /\ again.to_delete = {}
                /\ again.to_add = <<>>]_vars

\* a commit that removed one member and added another: the store is the added
\* member next to a kept one, and a diff of those two has nothing to do
C36_Witness ==
    /\ SyncCommitted
    /\ resp.body.deleted = 1
    /\ resp.body.added = 1
    /\ Pseudonym(lastReq.arg.add[1].email) \notin Elems(lastReq.arg.delete)
    /\ Cardinality(DOMAIN members) = 2
    /\ sync_members(Validated[lastReq.arg.add], members).to_add = <<>>

\* worker w has run the DROP of a bulk replace and not yet its commit
Replacement(w) == Job(w).op \in Replacing /\ pc[w] \in {"create", "write", "commit"}

\* the rows the bulk replace of worker w inserts
NewRows(w) == Statements(Job(w), FALSE, EmptyTable, EmptyTable).tbl

\* the table tbl holds some of the rows of new, not all and not none
PartOf(tbl, new) ==
    /\ DOMAIN tbl # {}
    /\ DOMAIN tbl \subseteq DOMAIN new
    /\ DOMAIN tbl # DOMAIN new
    /\ \A h \in DOMAIN tbl : tbl[h] = new[h]

CardPages == {"direct_member_card", "qr_card"}

C39_CallbackNeedsStoredState ==
    [][lastReq'.op = "authorized" =>
           /\ lastReq'.arg.answer # <<>> =>
                  /\ session.oauth_state \in OAuthStates
                  /\ lastReq'.arg.state = session.oauth_state
           /\ session'.oauth_state = None
           /\ session.oauth_state = None => resp'.status = 400]_vars

\* a callback that carried a state parameter was answered 400
FailedCallback ==
    /\ lastReq.op = "authorized"
    /\ lastReq.arg.state \in OAuthStates
    /\ resp.status = 400

\* C40: a callback answered 400 (here: one that carried a state parameter)
\* leaves no oauth_userinfo in the session, and the card page asked for next
\* issues no token.
C40_FailedCallbackLeavesNoUserinfo ==
    /\ [](FailedCallback => session.oauth_userinfo = NoUserinfo)
    /\ [][(FailedCallback /\ lastReq'.op \in CardPages) => UNCHANGED issued]_vars

====
